---------------------------- MODULE Spec2Model ----------------------------
(***************************************************************************)
(* A model of the hybrid data-processing pipeline of                        *)
(* src/etl_project/etl/transform/hybrid_processor.py (HybridDataProcessor)  *)
(* and of the DataCleaner (clean_data.py), DataNormalizer                  *)
(* (normalize_data.py) and DataEnricher (enrich_data.py) of the same       *)
(* directory.                                                              *)
(*                                                                         *)
(* A cell of a data frame is a tuple, told apart by its length:            *)
(*   <<n, d>>, d > 0   the finite number n/d, in lowest terms              *)
(*   <<0, 0>>          NaN / None (a missing cell, in any column)          *)
(*   <<1, 0>>, <<-1, 0>>   +inf, -inf                                      *)
(*   <<"s">>           the Python string s (object columns)                *)
(*   <<f, x, ctx>>     the real number f(x; ctx) of an irrational function *)
(*                     (log, sqrt, a standard score), kept as a term       *)
(* A data frame is [index, columns, dtype, data]: the row labels in row    *)
(* order, the column names in column order, each column's dtype ("num" or  *)
(* "obj"), and data[c][label] the cell of column c in the row of that      *)
(* label.                                                                  *)
(***************************************************************************)
EXTENDS Integers, Sequences, FiniteSets, TLC

----------------------------------------------------------------------------
(* Numbers *)

NaN == <<0, 0>>
PosInf == <<1, 0>>
NegInf == <<-1, 0>>

Abs(i) == IF i < 0 THEN -i ELSE i

RECURSIVE Gcd(_, _)
Gcd(a, b) == IF b = 0 THEN a ELSE Gcd(b, a % b)

\* n/d in lowest terms with a positive denominator (d # 0)
Rat(n, d) ==
    LET Reduce(g, s) == <<(s * n) \div g, (s * d) \div g>>
    IN  Reduce(Gcd(Abs(n), Abs(d)), IF d < 0 THEN -1 ELSE 1)

Num(i) == <<i, 1>>

\* numpy isnan / pandas isnull
isnull(c) == c = NaN
\* a finite number (not NaN, not +-inf, not a string, not a term)
IsRat(c) == Len(c) = 2 /\ c[2] > 0
IsStr(c) == Len(c) = 1
IsTerm(c) == Len(c) = 3

\* sums and comparisons go through the least common denominator
RAdd(a, b) ==
    LET Over(g) == Rat(a[1] * (b[2] \div g) + b[1] * (a[2] \div g), (a[2] \div g) * b[2])
    IN  Over(Gcd(a[2], b[2]))
RSub(a, b) == RAdd(a, <<-b[1], b[2]>>)
RMul(a, b) ==
    LET Over(g1, g2) == Rat((a[1] \div g1) * (b[1] \div g2), (a[2] \div g2) * (b[2] \div g1))
    IN  Over(Gcd(Abs(a[1]), b[2]), Gcd(Abs(b[1]), a[2]))
\* IEEE division of finite numbers: x/0 is +-inf, 0/0 is NaN
RDiv(a, b) ==
    IF b[1] = 0
    THEN IF a[1] = 0 THEN NaN ELSE IF a[1] > 0 THEN PosInf ELSE NegInf
    ELSE RMul(a, Rat(b[2], b[1]))
\* a < b, by the integer parts and then by the fractional parts
RLt(a, b) ==
    LET Cmp(qa, qb, g) ==
            IF qa # qb THEN qa < qb
            ELSE (a[1] % a[2]) * (b[2] \div g) < (b[1] % b[2]) * (a[2] \div g)
    IN  Cmp(a[1] \div a[2], b[1] \div b[2], Gcd(a[2], b[2]))
RLe(a, b) == ~RLt(b, a)

\* float arithmetic with NaN operands: NaN propagates, a comparison with NaN is False
FAdd(a, b) == IF IsRat(a) /\ IsRat(b) THEN RAdd(a, b) ELSE NaN
FSub(a, b) == IF IsRat(a) /\ IsRat(b) THEN RSub(a, b) ELSE NaN
FMul(a, b) == IF IsRat(a) /\ IsRat(b) THEN RMul(a, b) ELSE NaN
FDiv(a, b) == IF IsRat(a) /\ IsRat(b) THEN RDiv(a, b) ELSE NaN
FLt(a, b) == IsRat(a) /\ IsRat(b) /\ RLt(a, b)
FGt(a, b) == FLt(b, a)

----------------------------------------------------------------------------
(* Sequences *)

Range(s) == {s[i] : i \in DOMAIN s}
SeqContains(s, x) == \E i \in DOMAIN s : s[i] = x

RECURSIVE SelectSeqBy(_, _)
\* the subsequence of s of the elements in set keep
SelectSeqBy(s, keep) ==
    IF s = <<>> THEN <<>>
    ELSE IF Head(s) \in keep
         THEN <<Head(s)>> \o SelectSeqBy(Tail(s), keep)
         ELSE SelectSeqBy(Tail(s), keep)

RECURSIVE RInsert(_, _)
RInsert(sorted, x) ==
    IF sorted = <<>> THEN <<x>>
    ELSE IF RLe(x, Head(sorted))
         THEN <<x>> \o sorted
         ELSE <<Head(sorted)>> \o RInsert(Tail(sorted), x)

RECURSIVE RSort(_)
\* ascending sort of a sequence of finite numbers
RSort(s) == IF s = <<>> THEN <<>> ELSE RInsert(RSort(Tail(s)), Head(s))

RECURSIVE RSum(_)
RSum(s) == IF s = <<>> THEN Num(0) ELSE RAdd(Head(s), RSum(Tail(s)))

----------------------------------------------------------------------------
(* Data frames *)

\* the cells of column c in row order
ColValues(df, c) == [i \in DOMAIN df.index |-> df.data[c][df.index[i]]]

\* the values of a sequence as a column of the frame, in row order
AsColumn(df, vals) ==
    [l \in Range(df.index) |-> vals[CHOOSE i \in DOMAIN df.index : df.index[i] = l]]

RECURSIVE DropNa(_)
\* Series.dropna(), as the sequence of the remaining values
DropNa(s) ==
    IF s = <<>> THEN <<>>
    ELSE IF isnull(Head(s)) THEN DropNa(Tail(s))
         ELSE <<Head(s)>> \o DropNa(Tail(s))

HasColumn(df, c) == SeqContains(df.columns, c)

\* df.select_dtypes(include=[np.number]).columns.tolist()
NumericColumns(df) == SelectSeqBy(df.columns, {c \in Range(df.columns) : df.dtype[c] = "num"})
\* df.select_dtypes(include=['object', 'category']).columns.tolist()
ObjectColumns(df) == SelectSeqBy(df.columns, {c \in Range(df.columns) : df.dtype[c] = "obj"})

\* df[c] = values (a Series aligned on the index, or an array of the frame's length);
\* a new column is appended
SetColumn(df, c, dt, vals) ==
    [index |-> df.index,
     columns |-> IF HasColumn(df, c) THEN df.columns ELSE Append(df.columns, c),
     dtype |-> [k \in Range(df.columns) \cup {c} |-> IF k = c THEN dt ELSE df.dtype[k]],
     data |-> [k \in Range(df.columns) \cup {c} |-> IF k = c THEN vals ELSE df.data[k]]]

\* df.drop(columns=[c])
DropColumn(df, c) ==
    LET keep == Range(df.columns) \ {c}
    IN  [index |-> df.index,
         columns |-> SelectSeqBy(df.columns, keep),
         dtype |-> [k \in keep |-> df.dtype[k]],
         data |-> [k \in keep |-> df.data[k]]]

\* the frame restricted to the rows whose labels are in keep, in row order
KeepRows(df, keep) ==
    [index |-> SelectSeqBy(df.index, keep),
     columns |-> df.columns,
     dtype |-> df.dtype,
     data |-> [k \in Range(df.columns) |-> [l \in keep |-> df.data[k][l]]]]

\* Series.quantile(q), q = qn/qd: linear interpolation over the sorted non-missing values
Quantile(vals, qn, qd) ==
    LET Interpolate(s, lo, fr) ==
            IF fr[1] = 0 THEN s[lo + 1]
            ELSE RAdd(s[lo + 1], RMul(fr, RSub(s[lo + 2], s[lo + 1])))
        At(s, pos) ==
            IF s = <<>> THEN NaN
            ELSE Interpolate(s, pos \div qd, Rat(pos % qd, qd))
        Sorted(s) == At(s, (Len(s) - 1) * qn)
    IN  Sorted(RSort(DropNa(vals)))

\* Series.mean(): the mean of the non-missing values, NaN when there is none
Mean(vals) ==
    LET Of(s) == IF s = <<>> THEN NaN ELSE RDiv(RSum(s), Num(Len(s)))
    IN  Of(DropNa(vals))

\* Series.median()
Median(vals) == Quantile(vals, 1, 2)

----------------------------------------------------------------------------
(* Configuration *)

\* Python's None (an option left unset)
None == "<None>"

\* HybridDataProcessor.get_hybrid_config, with the defaults process_data_hybrid
\* gives to the options a config leaves out (config.get(key, default))
get_hybrid_config ==
    [detect_outliers |-> TRUE,
     outlier_methods |-> {"iqr", "zscore"},
     outlier_columns |-> <<None>>,
     handle_missing |-> TRUE,
     missing_strategy |-> "mean",
     missing_threshold |-> <<1, 2>>,
     remove_duplicates |-> TRUE,
     handle_outliers |-> TRUE,
     outlier_method |-> "winsorize",
     apply_transformations |-> FALSE,
     transformations |-> <<"log">>,
     transform_columns |-> <<>>,
     normalize_by_group |-> FALSE,
     normalize_columns |-> <<>>,
     normalize_global |-> TRUE,
     group_normalization_method |-> "minmax",
     normalization_method |-> "standard",
     encode_categorical |-> TRUE,
     encoding_method |-> "label",
     max_categories |-> 50,
     normalize_dates |-> TRUE,
     date_columns |-> <<None>>,
     extract_date_features |-> TRUE,
     group_by |-> None]

----------------------------------------------------------------------------
(* Outlier detection *)

\* the labels, in row order, of the rows of df whose label is in flagged:
\* df[outlier_mask].index.tolist()
MaskIndex(df, flagged) == SelectSeqBy(df.index, flagged)

\* the IQR bounds of a sequence of values: Q1 - 1.5*IQR and Q3 + 1.5*IQR
IqrBounds(vals) ==
    LET Bounds(q25, q75, w) == [lower |-> FSub(q25, w), upper |-> FAdd(q75, w)]
        Of(q25, q75) == Bounds(q25, q75, FMul(<<3, 2>>, FSub(q75, q25)))
    IN  Of(Quantile(vals, 1, 4), Quantile(vals, 3, 4))

\* the rows of the group of key k: df.groupby(group_by) drops the rows whose key is missing
GroupLabels(df, group_by, k) == {l \in Range(df.index) : df.data[group_by][l] = k}
GroupKeys(df, group_by) == {df.data[group_by][l] : l \in Range(df.index)} \ {NaN}
\* column c of the rows of group k, in row order
GroupValues(df, group_by, c, k) ==
    LET Of(idx) == [i \in DOMAIN idx |-> df.data[c][idx[i]]]
    IN  Of(SelectSeqBy(df.index, GroupLabels(df, group_by, k)))

\* Two Series compare only when identically labelled.  lower_bound[df[group_by]] is
\* labelled by the group keys, df[col] by the row labels.
IdenticallyLabeled(df, group_by) ==
    \A l \in Range(df.index) : df.data[group_by][l] = Num(l)

\* |x - mean| / std > 3 with the sample standard deviation (ddof = 1) of vals;
\* a NaN or zero deviation flags nothing
ZScoreAbove3(x, vals) ==
    LET Sq(d) == RMul(d, d)
        Test(n, ssq, dev) ==
            /\ n >= 2
            /\ ssq[1] > 0
            /\ RLt(RMul(Num(9), ssq), RMul(Num(n - 1), Sq(dev)))
        Of(s, m) == Test(Len(s), RSum([i \in DOMAIN s |-> Sq(RSub(s[i], m))]), RSub(x, m))
    IN  IsRat(x) /\ Of(DropNa(vals), Mean(vals))

\* a detection that also flags the cells that lie on a bound
DetectIqrInclusive(df, col, group_by) ==
    LET Flag(b) ==
            [err |-> "", present |-> TRUE,
             outliers |-> MaskIndex(df, {l \in Range(df.index) :
                              /\ IsRat(df.data[col][l]) /\ IsRat(b.lower)
                              /\ ~(FLt(b.lower, df.data[col][l])
                                    /\ FLt(df.data[col][l], b.upper))}),
             grouped |-> FALSE, lower |-> b.lower, upper |-> b.upper]
    IN  Flag(IqrBounds(ColValues(df, col)))

\* lines 65-91: the 'iqr' entry of one column, or the exception raised
DetectIqr(df, col, group_by) ==
    IF group_by # None
    THEN IF ~HasColumn(df, group_by) THEN [err |-> "KeyError"]
         ELSE IF \E l \in Range(df.index) : isnull(df.data[group_by][l])
              THEN [err |-> "KeyError"]
         ELSE IF ~IdenticallyLabeled(df, group_by) THEN [err |-> "ValueError"]
         ELSE LET Flag(rowb) ==
                      [err |-> "", present |-> TRUE,
                       outliers |-> MaskIndex(df, {l \in Range(df.index) :
                                        \/ FLt(df.data[col][l], rowb[l].lower)
                                        \/ FGt(df.data[col][l], rowb[l].upper)}),
                       grouped |-> TRUE,
                       lower |-> [l \in Range(df.index) |-> rowb[l].lower],
                       upper |-> [l \in Range(df.index) |-> rowb[l].upper]]
                  Rows(b) == Flag([l \in Range(df.index) |-> b[df.data[group_by][l]]])
              IN  Rows([k \in GroupKeys(df, group_by) |->
                           IqrBounds(GroupValues(df, group_by, col, k))])
    ELSE LET Flag(b) ==
                 [err |-> "", present |-> TRUE,
                  outliers |-> MaskIndex(df, {l \in Range(df.index) :
                                   \/ FLt(df.data[col][l], b.lower)
                                   \/ FGt(df.data[col][l], b.upper)}),
                  grouped |-> FALSE, lower |-> b.lower, upper |-> b.upper]
         IN  Flag(IqrBounds(ColValues(df, col)))

\* lines 94-111: the 'zscore' entry of one column, or the exception raised
DetectZscore(df, col, group_by) ==
    IF group_by # None
    THEN IF ~HasColumn(df, group_by) THEN [err |-> "KeyError"]
         ELSE [err |-> "", present |-> TRUE,
               outliers |-> MaskIndex(df, {l \in Range(df.index) :
                                /\ ~isnull(df.data[group_by][l])
                                /\ ZScoreAbove3(df.data[col][l],
                                       GroupValues(df, group_by, col, df.data[group_by][l]))})]
    ELSE [err |-> "", present |-> TRUE,
          outliers |-> MaskIndex(df, {l \in Range(df.index) :
                           ZScoreAbove3(df.data[col][l], ColValues(df, col))})]

NoIqr == [err |-> "", present |-> FALSE, outliers |-> <<>>, grouped |-> FALSE,
          lower |-> NaN, upper |-> NaN]
NoZscore == [err |-> "", present |-> FALSE, outliers |-> <<>>]

\* the body of the loop over the columns (lines 58-125): col_results of one column
DetectColumn(df, col, methods, group_by) ==
    IF df.dtype[col] # "num" /\ methods # {}
    THEN [err |-> "TypeError"]
    ELSE LET WithZscore(qi, zs) ==
                 IF zs.err # "" THEN [err |-> zs.err]
                 ELSE [err |-> "", col |-> col, iqr |-> qi, zscore |-> zs]
             WithIqr(qi) ==
                 IF qi.err # "" THEN [err |-> qi.err]
                 ELSE WithZscore(qi, IF "zscore" \in methods
                                     THEN DetectZscore(df, col, group_by) ELSE NoZscore)
         IN  WithIqr(IF "iqr" \in methods THEN DetectIqr(df, col, group_by) ELSE NoIqr)

RECURSIVE DetectLoop(_, _, _, _, _)
DetectLoop(df, columns, methods, group_by, acc) ==
    IF columns = <<>> THEN [err |-> "", results |-> acc]
    ELSE IF ~HasColumn(df, Head(columns))
         THEN DetectLoop(df, Tail(columns), methods, group_by, acc)
         ELSE LET Step(r) ==
                      IF r.err # "" THEN [err |-> r.err, results |-> acc]
                      ELSE DetectLoop(df, Tail(columns), methods, group_by,
                                      Append(acc, [col |-> r.col, iqr |-> r.iqr,
                                                   zscore |-> r.zscore]))
              IN  Step(DetectColumn(df, Head(columns), methods, group_by))

\* HybridDataProcessor.detect_outliers_comprehensive: the outlier_results dict as the
\* sequence of its entries in insertion order, or the exception that leaves the method
detect_outliers_comprehensive(df, columns, methods, group_by) ==
    LET cols == IF columns = <<None>> \/ columns = <<>> THEN NumericColumns(df) ELSE columns
    IN  DetectLoop(df, cols, methods, group_by, <<>>)

----------------------------------------------------------------------------
(* Missing values *)

\* Series.fillna(v)
FillNa(df, c, v) == [l \in Range(df.index) |-> IF isnull(df.data[c][l]) THEN v ELSE df.data[c][l]]

CountOf(s, x) == Cardinality({i \in DOMAIN s : s[i] = x})

\* Series.mode()[0]: the most frequent non-missing value, the smallest one among ties
\* (mode() returns the modes sorted); 0 when there is none
ModeOrZero(vals) ==
    LET s == DropNa(vals)
        modes == {v \in Range(s) : \A w \in Range(s) : CountOf(s, w) <= CountOf(s, v)}
    IN  IF s = <<>> THEN Num(0)
        ELSE CHOOSE v \in modes : \A w \in modes : RLe(v, w)

\* an imputation that falls back on the mean of the whole column where the group of the
\* row has no value
GroupFillGlobalMean(df, c, group_by) ==
    [l \in Range(df.index) |->
        IF isnull(df.data[group_by][l]) THEN NaN
        ELSE IF isnull(df.data[c][l])
             THEN IF DropNa(GroupValues(df, group_by, c, df.data[group_by][l])) = <<>>
                  THEN Mean(ColValues(df, c))
                  ELSE Mean(GroupValues(df, group_by, c, df.data[group_by][l]))
             ELSE df.data[c][l]]

\* df.groupby(group_by)[c].transform(lambda x: x.fillna(x.mean())): a row whose group
\* key is missing belongs to no group and comes back missing
GroupFillMean(df, c, group_by) ==
    [l \in Range(df.index) |->
        IF isnull(df.data[group_by][l]) THEN NaN
        ELSE IF isnull(df.data[c][l])
             THEN Mean(GroupValues(df, group_by, c, df.data[group_by][l]))
             ELSE df.data[c][l]]

IsNullCount(df, c) == Cardinality({l \in Range(df.index) : isnull(df.data[c][l])})

\* lines 430-443: the fill of one column by the strategy
ImputeColumn(df_clean, col, strategy, group_by) ==
    CASE strategy = "mean" ->
            [err |-> "", df |-> SetColumn(df_clean, col, "num",
                                    FillNa(df_clean, col, Mean(ColValues(df_clean, col))))]
      [] strategy = "median" ->
            [err |-> "", df |-> SetColumn(df_clean, col, "num",
                                    FillNa(df_clean, col, Median(ColValues(df_clean, col))))]
      [] strategy = "mode" ->
            [err |-> "", df |-> SetColumn(df_clean, col, "num",
                                    FillNa(df_clean, col, ModeOrZero(ColValues(df_clean, col))))]
      [] strategy = "group_mean" /\ group_by # None ->
            IF ~HasColumn(df_clean, group_by) THEN [err |-> "KeyError", df |-> df_clean]
            ELSE [err |-> "", df |-> SetColumn(df_clean, col, "num",
                                         GroupFillMean(df_clean, col, group_by))]
      [] strategy = "knn" ->
            \* KNNImputer on the single column: no neighbour has a feature in common, so
            \* the column mean is used; a column with no value at all is dropped by the imputer
            IF DropNa(ColValues(df_clean, col)) = <<>>
            THEN [err |-> "ValueError", df |-> df_clean]
            ELSE [err |-> "", df |-> SetColumn(df_clean, col, "num",
                                         FillNa(df_clean, col, Mean(ColValues(df_clean, col))))]
      [] OTHER -> [err |-> "", df |-> df_clean]

RECURSIVE ImputeLoop(_, _, _, _, _, _)
ImputeLoop(df, df_clean, columns, strategy, group_by, threshold) ==
    IF columns = <<>> THEN [err |-> "", df |-> df_clean]
    ELSE LET col == Head(columns)
             missing_count == IsNullCount(df, col)
             rest == Tail(columns)
         IN  IF ~HasColumn(df, col) \/ missing_count = 0
             THEN ImputeLoop(df, df_clean, rest, strategy, group_by, threshold)
             \* missing_ratio > threshold
             ELSE IF missing_count * threshold[2] > threshold[1] * Len(df.index)
             THEN ImputeLoop(df, DropColumn(df_clean, col), rest, strategy, group_by,
                             threshold)
             ELSE LET r == ImputeColumn(df_clean, col, strategy, group_by)
                  IN  IF r.err # "" THEN r
                      ELSE ImputeLoop(df, r.df, rest, strategy, group_by, threshold)

\* an imputation that drops no column: every column is filled, whatever its missing ratio
handle_missing_values_keep(df, strategy, columns, group_by, threshold) ==
    ImputeLoop(df, df,
               IF columns = <<None>> \/ columns = <<>> THEN NumericColumns(df) ELSE columns,
               strategy, group_by, <<1, 1>>)

\* HybridDataProcessor.handle_missing_values
handle_missing_values(df, strategy, columns, group_by, threshold) ==
    LET cols == IF columns = <<None>> \/ columns = <<>> THEN NumericColumns(df) ELSE columns
    IN  ImputeLoop(df, df, cols, strategy, group_by, threshold)

----------------------------------------------------------------------------
(* Duplicates *)

\* the cells of the row of label l in the columns of subset
RowKey(df, subset, l) == [i \in DOMAIN subset |-> df.data[subset[i]][l]]

\* a removal that takes out one repeated row per call: the last row that has an equal
\* row before it
drop_duplicates_one(df, subset, keep) ==
    LET Without(repeated) ==
            IF repeated = {} THEN df
            ELSE KeepRows(df, Range(df.index) \ {CHOOSE l \in repeated :
                                                    \A m \in repeated : m <= l})
    IN  Without({l \in Range(df.index) :
                    \E m \in Range(df.index) :
                        /\ m < l
                        /\ RowKey(df, IF subset = <<None>> THEN df.columns ELSE subset, m)
                             = RowKey(df, IF subset = <<None>> THEN df.columns ELSE subset, l)})

\* DataFrame.drop_duplicates(subset, keep): rows are equal when their cells in the
\* subset are equal (missing equals missing); the first (last) row of each class stays
\* and keeps its label.  A frame without columns is returned as it is.
drop_duplicates(df, subset, keep) ==
    LET cols == IF subset = <<None>> THEN df.columns ELSE subset
        pos == [l \in Range(df.index) |-> CHOOSE i \in DOMAIN df.index : df.index[i] = l]
        kept == {l \in Range(df.index) :
                    ~\E m \in Range(df.index) :
                        /\ RowKey(df, cols, m) = RowKey(df, cols, l)
                        /\ IF keep = "first" THEN pos[m] < pos[l] ELSE pos[m] > pos[l]}
    IN  IF df.columns = <<>> THEN df ELSE KeepRows(df, kept)

\* HybridDataProcessor.remove_duplicates
remove_duplicates(df, subset, keep) == drop_duplicates(df, subset, keep)

\* DataCleaner.remove_duplicates (clean_data.py): the same call of drop_duplicates
DataCleaner_remove_duplicates(df, subset, keep) == drop_duplicates(df, subset, keep)

----------------------------------------------------------------------------
(* Outlier treatment *)

\* numpy.log1p
Log1p(x) ==
    IF ~IsRat(x) THEN (IF x = PosInf THEN PosInf ELSE IF IsTerm(x) THEN <<"log1p", x, <<>>>> ELSE NaN)
    ELSE IF RLt(x, Num(-1)) THEN NaN
    ELSE IF x = Num(-1) THEN NegInf
    ELSE IF x = Num(0) THEN Num(0)
    ELSE <<"log1p", x, <<>>>>

\* Series.clip(lower, upper) of one cell; a missing bound does not clip
Clip(x, lower, upper) ==
    IF ~IsRat(x) THEN x
    ELSE IF FLt(x, lower) THEN lower
    ELSE IF FGt(x, upper) THEN upper
    ELSE x

ClipColumn(df, c, lower, upper) ==
    SetColumn(df, c, "num", [l \in Range(df.index) |-> Clip(df.data[c][l], lower, upper)])

\* clip by the 5th and 95th percentile of the column (lines 481-483 and 487-489)
PercentileClip(df, c) ==
    ClipColumn(df, c, Quantile(ColValues(df, c), 1, 20), Quantile(ColValues(df, c), 19, 20))

\* a treatment that takes the IQR bounds of the column as it is when it is treated
\* instead of the bounds the detection recorded
TreatColumnRecomputed(df_clean, method, entry) ==
    LET Bounded(b) == ClipColumn(df_clean, entry.col, b.lower, b.upper)
    IN  [err |-> "", df |-> Bounded(IqrBounds(ColValues(df_clean, entry.col)))]

\* lines 471-500: the treatment of one entry of outlier_results
TreatColumn(df_clean, method, entry) ==
    LET col == entry.col
    IN  CASE method = "winsorize" ->
                IF df_clean.dtype[col] # "num" THEN [err |-> "TypeError", df |-> df_clean]
                ELSE IF entry.iqr.present
                THEN IF entry.iqr.grouped
                     THEN [err |-> "", df |-> SetColumn(df_clean, col, "num",
                              [l \in Range(df_clean.index) |->
                                  Clip(df_clean.data[col][l], entry.iqr.lower[l],
                                       entry.iqr.upper[l])])]
                     ELSE [err |-> "", df |-> ClipColumn(df_clean, col, entry.iqr.lower,
                                                         entry.iqr.upper)]
                ELSE [err |-> "", df |-> PercentileClip(df_clean, col)]
          [] method = "cap" ->
                IF df_clean.dtype[col] # "num" THEN [err |-> "TypeError", df |-> df_clean]
                ELSE [err |-> "", df |-> PercentileClip(df_clean, col)]
          [] method = "remove" ->
                LET all_outliers == Range(entry.iqr.outliers) \cup Range(entry.zscore.outliers)
                IN  \* DataFrame.drop(index=...) raises on a label that is not in the index
                    IF ~(all_outliers \subseteq Range(df_clean.index))
                    THEN [err |-> "KeyError", df |-> df_clean]
                    ELSE [err |-> "", df |-> KeepRows(df_clean,
                                                Range(df_clean.index) \ all_outliers)]
          [] method = "transform" ->
                IF df_clean.dtype[col] # "num" THEN [err |-> "TypeError", df |-> df_clean]
                ELSE [err |-> "", df |-> SetColumn(df_clean, col, "num",
                         [l \in Range(df_clean.index) |-> Log1p(df_clean.data[col][l])])]
          [] OTHER -> [err |-> "", df |-> df_clean]

RECURSIVE TreatLoop(_, _, _, _)
TreatLoop(df, df_clean, method, results) ==
    IF results = <<>> THEN [err |-> "", df |-> df_clean]
    ELSE IF ~HasColumn(df, Head(results).col)
         THEN TreatLoop(df, df_clean, method, Tail(results))
         ELSE LET r == TreatColumn(df_clean, method, Head(results))
              IN  IF r.err # "" THEN r
                  ELSE TreatLoop(df, r.df, method, Tail(results))

\* a treatment that takes an empty outlier_results for one left out, and so reads what
\* an earlier detection left in self.outlier_stats
handle_outliers_hybrid_stale(df, method, results_given, outlier_results, self_outlier_stats) ==
    TreatLoop(df, df, method,
              IF ~results_given \/ outlier_results = <<>> THEN self_outlier_stats
              ELSE outlier_results)

\* HybridDataProcessor.handle_outliers_hybrid; results_given = FALSE stands for the
\* argument outlier_results left out (None), which makes the method read self.outlier_stats
handle_outliers_hybrid(df, method, results_given, outlier_results, self_outlier_stats) ==
    LET results == IF ~results_given THEN self_outlier_stats ELSE outlier_results
    IN  TreatLoop(df, df, method, results)

----------------------------------------------------------------------------
(* Distribution transformations *)

\* x <= 0 for a cell of a numeric column
Le0(x) ==
    IF IsRat(x) THEN x[1] <= 0
    ELSE IF x = NegInf THEN TRUE
    ELSE IF IsTerm(x) /\ x[1] = "log1p" THEN x[2][1] <= 0
    ELSE FALSE

\* x + 1
Add1(x) ==
    IF IsRat(x) THEN RAdd(x, Num(1))
    ELSE IF IsTerm(x) THEN <<"add1", x, <<>>>>
    ELSE x

\* log1p(y) <= -1 exactly when y <= 1/e - 1 = -0.63212...; y is a rational of a small
\* denominator, which a four-digit enclosure of 1/e - 1 separates
Log1pLeM1(y) == RLt(y, <<-6321, 10000>>)

\* numpy.log
Log(x) ==
    IF IsRat(x)
    THEN (IF x[1] < 0 THEN NaN
          ELSE IF x[1] = 0 THEN NegInf
          ELSE IF x = Num(1) THEN Num(0)
          ELSE <<"log", x, <<>>>>)
    ELSE IF x = PosInf THEN PosInf
    ELSE IF IsTerm(x) /\ x[1] = "log1p" THEN (IF Le0(x) THEN NaN ELSE <<"log", x, <<>>>>)
    ELSE IF IsTerm(x) /\ x[1] = "add1" /\ x[2][1] = "log1p"
         THEN (IF Log1pLeM1(x[2][2]) THEN NaN ELSE <<"log", x, <<>>>>)
    ELSE IF IsTerm(x) THEN <<"log", x, <<>>>>
    ELSE NaN

RECURSIVE ISqrt(_, _)
\* the largest k >= from with k*k <= n, searched upwards
ISqrt(n, from) == IF (from + 1) * (from + 1) > n THEN from ELSE ISqrt(n, from + 1)
IsSquare(n) == ISqrt(n, 0) * ISqrt(n, 0) = n

\* numpy.sqrt(numpy.abs(x))
SqrtAbs(x) ==
    IF IsRat(x)
    THEN (IF IsSquare(Abs(x[1])) /\ IsSquare(x[2])
          THEN <<ISqrt(Abs(x[1]), 0), ISqrt(x[2], 0)>>
          ELSE <<"sqrt", <<Abs(x[1]), x[2]>>, <<>>>>)
    ELSE IF IsTerm(x) THEN <<"sqrt", <<"abs", x, <<>>>>, <<>>>>
    ELSE IF x = NaN THEN NaN ELSE PosInf

\* x ** 2, computed for the integers of up to four digits; the square of any other
\* number is kept as a term
Square(x) ==
    IF IsRat(x) THEN (IF Abs(x[1]) <= 1000 /\ x[2] = 1 THEN RMul(x, x)
                      ELSE <<"square", x, <<>>>>)
    ELSE IF IsTerm(x) THEN <<"square", x, <<>>>>
    ELSE IF x = NaN THEN NaN ELSE PosInf

AllEqual(s) == \A i, j \in DOMAIN s : s[i] = s[j]

\* the values handed to scipy.stats.boxcox (lines 217-220): shifted by one when some
\* value is not positive
BoxcoxInput(data) ==
    IF \E i \in DOMAIN data : Le0(data[i])
    THEN [i \in DOMAIN data |-> Add1(data[i])]
    ELSE data

\* scipy.stats.boxcox raises on data that is not strictly positive, and on constant data
BoxcoxFits(data_positive) ==
    /\ data_positive # <<>>
    /\ \A i \in DOMAIN data_positive :
          ~Le0(data_positive[i]) /\ (IsRat(data_positive[i]) \/ IsTerm(data_positive[i]))
    /\ ~AllEqual(data_positive)

\* one derived column (lines 208-236), aligned on the index: a row whose source cell is
\* missing has a missing derived cell
TransformColumn(df, df_transformed, col, transform_type) ==
    LET src == df.data[col]
        data == DropNa(ColValues(df, col))
        nonpos == \E i \in DOMAIN data : Le0(data[i])
        aligned(f(_)) == [l \in Range(df.index) |-> IF isnull(src[l]) THEN NaN ELSE f(src[l])]
        LogShift(x) == Log(Add1(x))
        BoxTerm(x) == <<"boxcox", x, BoxcoxInput(data)>>
    IN  CASE transform_type = "log" ->
                SetColumn(df_transformed, col \o "_log", "num",
                          IF nonpos THEN aligned(LogShift) ELSE aligned(Log))
          [] transform_type = "boxcox" ->
                \* the fitted array is assigned by position: it fits only a column
                \* without a missing cell; otherwise the except branch assigns data_positive
                IF BoxcoxFits(BoxcoxInput(data)) /\ Len(data) = Len(df.index)
                THEN SetColumn(df_transformed, col \o "_boxcox", "num",
                               IF nonpos THEN [l \in Range(df.index) |-> BoxTerm(Add1(src[l]))]
                               ELSE [l \in Range(df.index) |-> BoxTerm(src[l])])
                ELSE SetColumn(df_transformed, col \o "_boxcox", "num",
                               IF nonpos THEN aligned(Add1) ELSE src)
          [] transform_type = "sqrt" ->
                SetColumn(df_transformed, col \o "_sqrt", "num", aligned(SqrtAbs))
          [] transform_type = "square" ->
                SetColumn(df_transformed, col \o "_square", "num", aligned(Square))
          [] OTHER -> df_transformed

RECURSIVE TransformKinds(_, _, _, _)
TransformKinds(df, df_transformed, col, transformations) ==
    IF transformations = <<>> THEN df_transformed
    ELSE TransformKinds(df, TransformColumn(df, df_transformed, col, Head(transformations)),
                        col, Tail(transformations))

RECURSIVE TransformLoop(_, _, _, _)
TransformLoop(df, df_transformed, columns, transformations) ==
    IF columns = <<>> THEN [err |-> "", df |-> df_transformed]
    ELSE IF ~HasColumn(df, Head(columns))
         THEN TransformLoop(df, df_transformed, Tail(columns), transformations)
         \* comparing or taking the root of strings raises
         ELSE IF df.dtype[Head(columns)] # "num"
                 /\ \E i \in DOMAIN transformations :
                        transformations[i] \in {"log", "boxcox", "sqrt", "square"}
         THEN [err |-> "TypeError", df |-> df_transformed]
         ELSE TransformLoop(df, TransformKinds(df, df_transformed, Head(columns),
                                               transformations),
                            Tail(columns), transformations)

\* HybridDataProcessor.apply_transformations
apply_transformations(df, columns, transformations) ==
    TransformLoop(df, df, columns, transformations)

----------------------------------------------------------------------------
(* Normalization *)

AllRat(s) == \A i \in DOMAIN s : IsRat(s[i])

\* the minimum and the maximum of a non-empty sequence of finite numbers
RMin(s) == CHOOSE v \in Range(s) : \A w \in Range(s) : RLe(v, w)
RMax(s) == CHOOSE v \in Range(s) : \A w \in Range(s) : RLe(w, v)

\* (x - min) / (max - min) within vals (the non-missing values of the group); values
\* that are terms of irrational functions keep the quotient as a term
GroupMinMax(x, vals) ==
    LET s == DropNa(vals)
    IN  IF isnull(x) \/ s = <<>> THEN NaN
        ELSE IF AllRat(s) THEN FDiv(RSub(x, RMin(s)), RSub(RMax(s), RMin(s)))
        ELSE IF AllEqual(s) THEN NaN
        ELSE <<"minmax", x, s>>

\* (x - mean) / std within vals, std the sample standard deviation (ddof = 1)
GroupStandard(x, vals) ==
    LET s == DropNa(vals)
    IN  IF isnull(x) \/ Len(s) < 2 THEN NaN
        ELSE IF AllEqual(s) THEN NaN
        ELSE <<"gstd", x, s>>

\* one column of normalize_by_group (lines 261-271)
GroupNormalizeColumn(df_normalized, col, group_by, method) ==
    LET keyOf(l) == df_normalized.data[group_by][l]
        grp(l) == GroupValues(df_normalized, group_by, col, keyOf(l))
    IN  CASE method = "minmax" ->
                SetColumn(df_normalized, col \o "_N", "num",
                    [l \in Range(df_normalized.index) |->
                        IF isnull(keyOf(l)) THEN NaN
                        ELSE GroupMinMax(df_normalized.data[col][l], grp(l))])
          [] method = "standard" ->
                SetColumn(df_normalized, col \o "_S", "num",
                    [l \in Range(df_normalized.index) |->
                        IF isnull(keyOf(l)) THEN NaN
                        ELSE GroupStandard(df_normalized.data[col][l], grp(l))])
          [] OTHER -> df_normalized

RECURSIVE GroupNormalizeLoop(_, _, _, _, _)
GroupNormalizeLoop(df, df_normalized, columns, group_by, method) ==
    IF columns = <<>> THEN [err |-> "", df |-> df_normalized]
    ELSE IF ~HasColumn(df, Head(columns))
         THEN GroupNormalizeLoop(df, df_normalized, Tail(columns), group_by, method)
         ELSE IF method \notin {"minmax", "standard"}
         THEN GroupNormalizeLoop(df, df_normalized, Tail(columns), group_by, method)
         \* groupby(None) and groupby of an unknown column raise
         ELSE IF group_by = None THEN [err |-> "TypeError", df |-> df_normalized]
         ELSE IF ~HasColumn(df_normalized, group_by) THEN [err |-> "KeyError", df |-> df_normalized]
         \* subtracting strings raises
         ELSE IF df.dtype[Head(columns)] # "num" THEN [err |-> "TypeError", df |-> df_normalized]
         ELSE GroupNormalizeLoop(df,
                  GroupNormalizeColumn(df_normalized, Head(columns), group_by, method),
                  Tail(columns), group_by, method)

\* HybridDataProcessor.normalize_by_group
normalize_by_group(df, columns, group_by, method) ==
    GroupNormalizeLoop(df, df, columns, group_by, method)

\* StandardScaler().fit_transform: (x - mean) / std with the population standard
\* deviation; a zero deviation is replaced by 1, so a constant column becomes 0
StandardScale(x, data) ==
    IF AllEqual(data) THEN Num(0) ELSE <<"std", x, data>>

\* MinMaxScaler().fit_transform: (x - min) / (max - min); a zero range is replaced by 1
MinMaxScale(x, data) ==
    IF AllEqual(data) THEN Num(0)
    ELSE IF AllRat(data) THEN RDiv(RSub(x, RMin(data)), RSub(RMax(data), RMin(data)))
    ELSE <<"minmax", x, data>>

\* the scalers check their input: an infinite value raises
ScalerAccepts(data) == \A i \in DOMAIN data : IsRat(data[i]) \/ IsTerm(data[i])

\* np.median(np.abs(data - data.median())) (lines 526-527)
Mad(data) ==
    LET Dev(median) == [i \in DOMAIN data |-> <<Abs(RSub(data[i], median)[1]),
                                                RSub(data[i], median)[2]>>]
    IN  Median(Dev(Median(data)))

\* one column of normalize_numerical (lines 515-530)
NormalizeColumn(df, df_normalized, col, method, scalers) ==
    LET data == DropNa(ColValues(df, col))
        fitted(f(_, _)) == [l \in Range(df.index) |-> f(df.data[col][l], data)]
    IN  IF data = <<>> THEN [err |-> "", df |-> df_normalized, scalers |-> scalers]
        ELSE IF method \in {"standard", "minmax"}
        THEN IF ~ScalerAccepts(data)
             THEN [err |-> "ValueError", df |-> df_normalized, scalers |-> scalers]
             \* the fitted array has len(data) rows: assigning it to a column of a
             \* different length raises
             ELSE IF Len(data) # Len(df.index)
             THEN [err |-> "ValueError", df |-> df_normalized, scalers |-> scalers]
             ELSE [err |-> "",
                   df |-> SetColumn(df_normalized, col, "num",
                              IF method = "standard" THEN fitted(StandardScale)
                              ELSE fitted(MinMaxScale)),
                   scalers |-> scalers \cup {col}]
        \* 'robust' (and any other method) binds no scaler: self.scalers[col] = scaler
        \* raises UnboundLocalError
        ELSE [err |-> "UnboundLocalError", df |-> df_normalized, scalers |-> scalers]

RECURSIVE NormalizeLoop(_, _, _, _, _)
NormalizeLoop(df, df_normalized, columns, method, scalers) ==
    IF columns = <<>> THEN [err |-> "", df |-> df_normalized, scalers |-> scalers]
    ELSE IF ~HasColumn(df, Head(columns))
         THEN NormalizeLoop(df, df_normalized, Tail(columns), method, scalers)
         ELSE LET r == NormalizeColumn(df, df_normalized, Head(columns), method, scalers)
              IN  IF r.err # "" THEN r
                  ELSE NormalizeLoop(df, r.df, Tail(columns), method, r.scalers)

\* HybridDataProcessor.normalize_numerical; scalers is the set of the keys of self.scalers
normalize_numerical(df, method, columns, scalers) ==
    LET cols == IF columns = <<None>> \/ columns = <<>> THEN NumericColumns(df) ELSE columns
    IN  NormalizeLoop(df, df, cols, method, scalers)

----------------------------------------------------------------------------
(* Strings: a string cell is <<codes>>, codes the sequence of its code points *)

\* the printable ASCII characters from code 32 to code 95, and from code 97 to code 126
\* (the grave accent, code 96, cannot be written in a string of this language)
CharsLow ==
    <<
       " ", "!", "\"", "#", "$", "%", "&", "'", "(", ")", "*", "+",
       ",", "-", ".", "/", "0", "1", "2", "3", "4", "5", "6", "7",
       "8", "9", ":", ";", "<", "=", ">", "?", "@", "A", "B", "C",
       "D", "E", "F", "G", "H", "I", "J", "K", "L", "M", "N", "O",
       "P", "Q", "R", "S", "T", "U", "V", "W", "X", "Y", "Z", "[",
       "\\", "]", "^", "_"
    >>
CharsHigh ==
    <<
       "a", "b", "c", "d", "e", "f", "g", "h", "i", "j", "k", "l",
       "m", "n", "o", "p", "q", "r", "s", "t", "u", "v", "w", "x",
       "y", "z", "{", "|", "}", "~"
    >>
CharOf(code) == IF code < 96 THEN CharsLow[code - 31] ELSE CharsHigh[code - 96]

RECURSIVE StrOf(_)
\* the string of a sequence of code points, as an f-string formats it
StrOf(codes) == IF codes = <<>> THEN "" ELSE CharOf(Head(codes)) \o StrOf(Tail(codes))

\* str(float('nan'))
NanCodes == <<110, 97, 110>>

\* Series.astype(str) of one cell of an object column
AsStr(c) == IF isnull(c) THEN NanCodes ELSE c[1]

RECURSIVE LexLt(_, _)
\* a < b for Python strings: by code point, a proper prefix first
LexLt(a, b) ==
    IF b = <<>> THEN FALSE
    ELSE IF a = <<>> THEN TRUE
    ELSE IF Head(a) # Head(b) THEN Head(a) < Head(b)
    ELSE LexLt(Tail(a), Tail(b))

RECURSIVE SortStrings(_)
\* sorted(set): the strings of a finite set in ascending order
SortStrings(S) ==
    IF S = {} THEN <<>>
    ELSE LET least == CHOOSE x \in S : \A y \in S \ {x} : LexLt(x, y)
         IN  <<least>> \o SortStrings(S \ {least})

IndexOf(s, x) == CHOOSE i \in DOMAIN s : s[i] = x

----------------------------------------------------------------------------
(* Categorical encoding *)

\* LabelEncoder().fit(values).classes_: the sorted distinct strings
LabelClasses(strs) == SortStrings(Range(strs))

\* an encoding that numbers the strings in the order of their first appearance
LabelEncodeByAppearance(df, col) ==
    LET Codes(strs) ==
            [i \in DOMAIN strs |->
                Num(Cardinality({strs[j] : j \in 1..(CHOOSE k \in DOMAIN strs :
                                                        /\ strs[k] = strs[i]
                                                        /\ \A m \in 1..(k - 1) :
                                                              strs[m] # strs[i])}) - 1)]
    IN  Codes([i \in DOMAIN df.index |-> AsStr(df.data[col][df.index[i]])])

\* LabelEncoder().fit_transform(df[col].astype(str)): the 0-based rank of each string
\* among the sorted distinct strings of the column
LabelEncode(df, col) ==
    LET strs == [i \in DOMAIN df.index |-> AsStr(df.data[col][df.index[i]])]
        classes == LabelClasses(strs)
    IN  [i \in DOMAIN strs |-> Num(IndexOf(classes, strs[i]) - 1)]

\* Series.nunique(): the number of distinct non-missing values
nunique(df, col) == Cardinality(Range(DropNa(ColValues(df, col))))

\* OneHotEncoder().fit(df[[col]]).categories_[0]: the sorted distinct values, a missing
\* value last
OneHotCategories(df, col) ==
    LET vals == ColValues(df, col)
        present == {c[1] : c \in Range(DropNa(vals))}
        sorted == SortStrings(present)
    IN  [i \in DOMAIN sorted |-> <<sorted[i]>>]
        \o (IF \E i \in DOMAIN vals : isnull(vals[i]) THEN <<NaN>> ELSE <<>>)

\* the f-string {col}_{cat}
OneHotName(col, cat) == col \o "_" \o StrOf(AsStr(cat))

RECURSIVE AddIndicators(_, _, _, _, _)
\* pd.concat([frame, encoded_df], axis=1), one indicator column at a time: encoded_df
\* carries a fresh RangeIndex, so its row p holds the indicator of the p-th row of df;
\* frame has already been reindexed on the union of the two indexes
AddIndicators(frame, df, col, cats, k) ==
    IF k > Len(cats) THEN frame
    ELSE AddIndicators(
            SetColumn(frame, OneHotName(col, cats[k]), "num",
                [l \in Range(frame.index) |->
                    IF l \in 0..(Len(df.index) - 1)
                    THEN (IF df.data[col][df.index[l + 1]] = cats[k] THEN Num(1) ELSE Num(0))
                    ELSE NaN]),
            df, col, cats, k + 1)

\* the frame reindexed on index (an outer join): the rows it lacks are all missing
Reindex(frame, index) ==
    [index |-> index,
     columns |-> frame.columns,
     dtype |-> frame.dtype,
     data |-> [c \in Range(frame.columns) |->
                  [l \in Range(index) |->
                      IF l \in Range(frame.index) THEN frame.data[c][l] ELSE NaN]]]

\* lines 557-560: the one-hot encoding of one column
OneHotColumn(df, df_encoded, col) ==
    LET n == Len(df.index)
        fresh == [i \in 1..n |-> i - 1]
        union == df_encoded.index
                 \o SelectSeqBy(fresh, Range(fresh) \ Range(df_encoded.index))
    IN  AddIndicators(Reindex(DropColumn(df_encoded, col), union), df, col,
                      OneHotCategories(df, col), 1)

\* one column of encode_categorical (lines 546-565)
EncodeColumn(df, df_encoded, col, method, max_categories, encoders) ==
    LET label ==
            \* an array of len(df) values is assigned to a column of df_encoded
            IF Len(df_encoded.index) # Len(df.index)
            THEN [err |-> "ValueError", df |-> df_encoded, encoders |-> encoders]
            ELSE [err |-> "",
                  df |-> SetColumn(df_encoded, col, "num",
                            LET codes == LabelEncode(df, col)
                            IN  [l \in Range(df_encoded.index) |->
                                    codes[IndexOf(df_encoded.index, l)]]),
                  encoders |-> encoders \cup {col}]
    IN  CASE method = "label" -> label
          [] method = "onehot" ->
                IF nunique(df, col) > max_categories THEN label
                \* OneHotEncoder.fit rejects an array of no rows
                ELSE IF df.index = <<>>
                THEN [err |-> "ValueError", df |-> df_encoded, encoders |-> encoders]
                ELSE [err |-> "", df |-> OneHotColumn(df, df_encoded, col),
                      encoders |-> encoders \cup {col}]
          \* 'frequency' (and any other method) binds no encoder:
          \* self.encoders[col] = encoder raises UnboundLocalError
          [] OTHER -> [err |-> "UnboundLocalError", df |-> df_encoded, encoders |-> encoders]

RECURSIVE EncodeLoop(_, _, _, _, _, _)
EncodeLoop(df, df_encoded, columns, method, max_categories, encoders) ==
    IF columns = <<>> THEN [err |-> "", df |-> df_encoded, encoders |-> encoders]
    ELSE IF ~HasColumn(df, Head(columns))
         THEN EncodeLoop(df, df_encoded, Tail(columns), method, max_categories, encoders)
         ELSE LET r == EncodeColumn(df, df_encoded, Head(columns), method, max_categories,
                                    encoders)
              IN  IF r.err # "" THEN r
                  ELSE EncodeLoop(df, r.df, Tail(columns), method, max_categories,
                                  r.encoders)

\* HybridDataProcessor.encode_categorical; encoders is the set of the keys of self.encoders
encode_categorical(df, method, columns, max_categories, encoders) ==
    LET cols == IF columns = <<None>> \/ columns = <<>> THEN ObjectColumns(df) ELSE columns
    IN  EncodeLoop(df, df, cols, method, max_categories, encoders)

----------------------------------------------------------------------------
(* Dates *)

IsDigit(code) == code \in 48..57
DigitsValue2(codes, i) == (codes[i] - 48) * 10 + (codes[i + 1] - 48)
DigitsValue4(codes, i) == DigitsValue2(codes, i) * 100 + DigitsValue2(codes, i + 2)

IsLeap(y) == (y % 4 = 0 /\ y % 100 # 0) \/ y % 400 = 0
DaysInMonth(y, m) ==
    IF m = 2 THEN (IF IsLeap(y) THEN 29 ELSE 28)
    ELSE IF m \in {4, 6, 9, 11} THEN 30 ELSE 31

\* Not-a-Time
NaT == [valid |-> FALSE, year |-> 0, month |-> 0, day |-> 0]

\* pd.to_datetime of one string: an ISO date YYYY-MM-DD of the calendar parses, the
\* other strings of the model (words, category names) do not
ParseDate(codes) ==
    IF /\ Len(codes) = 10
       /\ \A i \in {1, 2, 3, 4, 6, 7, 9, 10} : IsDigit(codes[i])
       /\ codes[5] = 45 /\ codes[8] = 45
    THEN LET y == DigitsValue4(codes, 1)
             m == DigitsValue2(codes, 6)
             d == DigitsValue2(codes, 9)
         IN  IF y >= 1 /\ m \in 1..12 /\ d >= 1 /\ d <= DaysInMonth(y, m)
             THEN [valid |-> TRUE, year |-> y, month |-> m, day |-> d]
             ELSE NaT
    ELSE NaT

\* pd.to_datetime(cell, errors='coerce'): a missing or unparsable cell is NaT; a number
\* counts nanoseconds from the epoch
ToDatetime(c) ==
    IF IsStr(c) THEN ParseDate(c[1])
    ELSE IF IsRat(c)
         THEN (IF c[1] >= 0 THEN [valid |-> TRUE, year |-> 1970, month |-> 1, day |-> 1]
               ELSE [valid |-> TRUE, year |-> 1969, month |-> 12, day |-> 31])
    ELSE NaT

\* the day of the week, Monday = 0 (Series.dt.weekday)
Weekday(y, m, d) ==
    LET t == <<0, 3, 2, 5, 0, 3, 5, 1, 4, 6, 2, 4>>
        yy == IF m < 3 THEN y - 1 ELSE y
        sunday0 == (yy + yy \div 4 - yy \div 100 + yy \div 400 + t[m] + d) % 7
    IN  (sunday0 + 6) % 7

Quarter(m) == (m - 1) \div 3 + 1

Digits2(n) == <<48 + ((n \div 10) % 10), 48 + (n % 10)>>
Digits4(n) == Digits2(n \div 100) \o Digits2(n % 100)

\* Series.dt.strftime(format) of one timestamp; NaT formats to a missing cell
Strftime(t, format) ==
    IF ~t.valid THEN NaN
    ELSE IF format = "%Y-%m-%d"
         THEN <<Digits4(t.year) \o <<45>> \o Digits2(t.month) \o <<45>> \o Digits2(t.day)>>
    ELSE IF format = "%d/%m/%Y"
         THEN <<Digits2(t.day) \o <<47>> \o Digits2(t.month) \o <<47>> \o Digits4(t.year)>>
    ELSE <<Digits4(t.year) \o Digits2(t.month) \o Digits2(t.day)>>

FirstN(s, n) == [i \in 1..(IF Len(s) < n THEN Len(s) ELSE n) |-> s[i]]

\* lines 577-585: the object columns whose first five non-missing values all parse
\* (pd.to_datetime raises on the first value that does not)
DetectDateColumns(df) ==
    SelectSeqBy(df.columns,
        {c \in Range(df.columns) :
            /\ df.dtype[c] = "obj"
            /\ LET sample == FirstN(DropNa(ColValues(df, c)), 5)
               IN  \A i \in DOMAIN sample : ToDatetime(sample[i]).valid})

DateFeature(df, col, f(_)) ==
    [l \in Range(df.index) |->
        LET t == ToDatetime(df.data[col][l])
        IN  IF t.valid THEN Num(f(t)) ELSE NaN]

\* lines 593-605: one date column
NormalizeDateColumn(df, df_normalized, col, format, extract_features) ==
    LET Year(t) == t.year
        Month(t) == t.month
        Day(t) == t.day
        Wd(t) == Weekday(t.year, t.month, t.day)
        Qt(t) == Quarter(t.month)
        formatted == SetColumn(df_normalized, col, "obj",
                        [l \in Range(df.index) |-> Strftime(ToDatetime(df.data[col][l]), format)])
    IN  IF ~extract_features THEN formatted
        ELSE SetColumn(SetColumn(SetColumn(SetColumn(SetColumn(formatted,
                 col \o "_year", "num", DateFeature(df, col, Year)),
                 col \o "_month", "num", DateFeature(df, col, Month)),
                 col \o "_day", "num", DateFeature(df, col, Day)),
                 col \o "_weekday", "num", DateFeature(df, col, Wd)),
                 col \o "_quarter", "num", DateFeature(df, col, Qt))

RECURSIVE DatesLoop(_, _, _, _, _)
DatesLoop(df, df_normalized, date_columns, format, extract_features) ==
    IF date_columns = <<>> THEN [err |-> "", df |-> df_normalized]
    ELSE IF ~HasColumn(df, Head(date_columns))
         THEN DatesLoop(df, df_normalized, Tail(date_columns), format, extract_features)
         ELSE DatesLoop(df,
                  NormalizeDateColumn(df, df_normalized, Head(date_columns), format,
                                      extract_features),
                  Tail(date_columns), format, extract_features)

\* HybridDataProcessor.normalize_dates
normalize_dates(df, date_columns, format, extract_features) ==
    LET cols == IF date_columns = <<None>> \/ date_columns = <<>>
                THEN DetectDateColumns(df) ELSE date_columns
    IN  DatesLoop(df, df, cols, format, extract_features)

----------------------------------------------------------------------------
(* DataNormalizer (normalize_data.py) *)

\* RobustScaler().fit_transform: (x - median) / (q75 - q25) over the non-missing values;
\* a zero range is replaced by 1
RobustScale(x, data) ==
    LET Over(iqr) == RDiv(RSub(x, Median(data)), IF iqr = Num(0) THEN Num(1) ELSE iqr)
    IN  IF AllRat(data) THEN Over(RSub(Quantile(data, 3, 4), Quantile(data, 1, 4)))
        ELSE <<"robust", x, data>>

\* col - col.min() + 1 where some value is not positive (lines 57-58, 63-64)
ShiftPositive(x, data) ==
    IF (\E i \in DOMAIN data : Le0(data[i])) /\ AllRat(data)
    THEN RAdd(RSub(x, RMin(data)), Num(1))
    ELSE x

\* one column of DataNormalizer.normalize_numerical (lines 40-65); the scalers fit on
\* the non-missing values and leave a missing cell missing
ScaleColumn(df_normalized, col, method) ==
    LET data == DropNa(ColValues(df_normalized, col))
        fitted(f(_, _)) ==
            [l \in Range(df_normalized.index) |->
                IF isnull(df_normalized.data[col][l]) THEN NaN
                ELSE f(df_normalized.data[col][l], data)]
        logged(x, d) == Log(ShiftPositive(x, d))
        boxcoxed(x, d) == <<"boxcox", ShiftPositive(x, d), d>>
        done(vals) == [err |-> "", df |-> SetColumn(df_normalized, col, "num", vals)]
        \* the scalers reject an infinite value and an array of no rows
        rejected == ~ScalerAccepts(data) \/ df_normalized.index = <<>>
    IN  CASE method \in {"standard", "minmax", "robust"} /\ rejected ->
                [err |-> "ValueError", df |-> df_normalized]
          [] method = "standard" /\ ~rejected -> done(fitted(StandardScale))
          [] method = "minmax" /\ ~rejected -> done(fitted(MinMaxScale))
          [] method = "robust" /\ ~rejected -> done(fitted(RobustScale))
          [] method = "log" -> done(fitted(logged))
          \* scipy.stats.boxcox raises on constant data
          [] method = "boxcox" ->
                IF Len(df_normalized.index) > 0
                   /\ \A l \in Range(df_normalized.index) :
                         df_normalized.data[col][l] = df_normalized.data[col][df_normalized.index[1]]
                THEN [err |-> "ValueError", df |-> df_normalized]
                ELSE done(fitted(boxcoxed))
          [] OTHER -> [err |-> "", df |-> df_normalized]

RECURSIVE ScaleLoop(_, _, _, _)
ScaleLoop(df, df_normalized, columns, method) ==
    IF columns = <<>> THEN [err |-> "", df |-> df_normalized]
    ELSE IF ~HasColumn(df, Head(columns)) \/ df.dtype[Head(columns)] # "num"
         THEN ScaleLoop(df, df_normalized, Tail(columns), method)
         ELSE LET After(r) == IF r.err # "" THEN r
                              ELSE ScaleLoop(df, r.df, Tail(columns), method)
              IN  After(ScaleColumn(df_normalized, Head(columns), method))

\* DataNormalizer.normalize_numerical
DataNormalizer_normalize_numerical(df, columns, method) ==
    ScaleLoop(df, df,
              IF columns = <<None>> \/ columns = <<>> THEN NumericColumns(df) ELSE columns,
              method)

----------------------------------------------------------------------------

\* pd.Categorical(values).codes: the 0-based rank of each value among the sorted
\* distinct non-missing values, -1 for a missing value
CategoricalCodes(vals) ==
    LET Coded(classes) ==
            [i \in DOMAIN vals |->
                IF isnull(vals[i]) THEN Num(-1) ELSE Num(IndexOf(classes, vals[i][1]) - 1)]
    IN  Coded(SortStrings({c[1] : c \in Range(DropNa(vals))}))

\* Series.map(Series.value_counts(normalize=True)): the share of each value among the
\* non-missing values
FrequencyMap(vals) ==
    [i \in DOMAIN vals |->
        IF isnull(vals[i]) THEN NaN
        ELSE RDiv(Num(CountOf(vals, vals[i])), Num(Len(DropNa(vals))))]

RECURSIVE AddDummies(_, _, _, _)
\* pd.concat([df, pd.get_dummies(df[col], prefix=col)], axis=1): one indicator column
\* per sorted distinct non-missing value
AddDummies(frame, col, classes, k) ==
    IF k > Len(classes) THEN frame
    ELSE AddDummies(
            SetColumn(frame, OneHotName(col, <<classes[k]>>), "bool",
                      [l \in Range(frame.index) |->
                          IF frame.data[col][l] = <<classes[k]>> THEN Num(1) ELSE Num(0)]),
            col, classes, k + 1)

\* one column of DataNormalizer.standardize_categorical (lines 94-107)
StandardizeColumn(df_standardized, col, method) ==
    CASE method = "label" ->
            SetColumn(df_standardized, col, "int8",
                      AsColumn(df_standardized,
                               CategoricalCodes(ColValues(df_standardized, col))))
      [] method = "onehot" ->
            DropColumn(AddDummies(df_standardized, col,
                           SortStrings({c[1] : c \in Range(DropNa(ColValues(df_standardized,
                                                                             col)))}), 1),
                       col)
      [] method = "frequency" ->
            SetColumn(df_standardized, col, "num",
                      AsColumn(df_standardized, FrequencyMap(ColValues(df_standardized, col))))
      [] OTHER -> df_standardized

RECURSIVE StandardizeLoop(_, _, _)
StandardizeLoop(df_standardized, columns, method) ==
    IF columns = <<>> THEN df_standardized
    ELSE StandardizeLoop(StandardizeColumn(df_standardized, Head(columns), method),
                         Tail(columns), method)

\* DataNormalizer.standardize_categorical(df, method=method)
standardize_categorical(df, method) == StandardizeLoop(df, ObjectColumns(df), method)

\* DataNormalizer.normalize_data called without further keyword arguments; a frame of
\* the model holds no datetime64 column, so that lines 204-207 select no date column
normalize_data(df, numerical_method, categorical_method) ==
    LET After(r) == IF r.err # "" THEN r
                    ELSE [err |-> "", df |-> standardize_categorical(r.df, categorical_method)]
    IN  After(DataNormalizer_normalize_numerical(df, <<None>>, numerical_method))

----------------------------------------------------------------------------
(* DataEnricher (enrich_data.py) *)

\* x / y for two cells of numeric columns
CellDiv(x, y) ==
    IF isnull(x) \/ isnull(y) THEN NaN
    ELSE IF IsRat(x) /\ IsRat(y) THEN RDiv(x, y)
    ELSE <<"div", x, y>>

RECURSIVE ConditionalLoop(_, _)
\* DataEnricher.create_conditional_columns (lines 32-39) for conditions of the form
\* lambda df: df[num] / df[den], each [name, num, den]: a condition that raises (a
\* column that is absent, or one of text) is logged and adds nothing
ConditionalLoop(df_enriched, conditions) ==
    LET Ratio(c) ==
            IF ~HasColumn(df_enriched, c.num) \/ ~HasColumn(df_enriched, c.den)
            THEN df_enriched
            ELSE IF df_enriched.dtype[c.num] = "obj" \/ df_enriched.dtype[c.den] = "obj"
            THEN df_enriched
            ELSE SetColumn(df_enriched, c.name, "num",
                           [l \in Range(df_enriched.index) |->
                               CellDiv(df_enriched.data[c.num][l], df_enriched.data[c.den][l])])
    IN  IF conditions = <<>> THEN df_enriched
        ELSE ConditionalLoop(Ratio(Head(conditions)), Tail(conditions))

\* DataEnricher.enrich_data(df, conditional_columns=conditions)
enrich_data(df, conditions) == ConditionalLoop(df, conditions)

----------------------------------------------------------------------------
(* DataCleaner (clean_data.py) *)

sUnknown == <<<<85, 110, 107, 110, 111, 119, 110>>>>

\* df[col].mode()[0] if len(df[col].mode()) > 0 else 'Unknown' for a text column: the
\* most frequent non-missing string, the first in sorted order among ties
ModeOrUnknown(vals) ==
    LET Least(s, strs) ==
            SortStrings({c \in strs : \A w \in strs : CountOf(s, <<w>>) <= CountOf(s, <<c>>)})[1]
        Of(s) == IF s = <<>> THEN sUnknown ELSE <<Least(s, {v[1] : v \in Range(s)})>>
    IN  Of(DropNa(vals))

\* Series.interpolate(method='linear'): a run of missing cells between two values is
\* filled at equal steps, a run at the end takes the last value, a run at the start
\* stays missing
Interpolate(vals) ==
    [i \in DOMAIN vals |->
        LET before == {p \in 1..i : ~isnull(vals[p])}
            after == {q \in i..Len(vals) : ~isnull(vals[q])}
            Between(p, q) ==
                RAdd(vals[p], RMul(RSub(vals[q], vals[p]), Rat(i - p, q - p)))
        IN  IF ~isnull(vals[i]) THEN vals[i]
            ELSE IF before = {} THEN NaN
            ELSE IF after = {} THEN vals[CHOOSE p \in before : \A r \in before : r <= p]
            ELSE Between(CHOOSE p \in before : \A r \in before : r <= p,
                         CHOOSE q \in after : \A r \in after : q <= r)]

\* one column of DataCleaner.handle_missing_values (lines 48-69) called with a strategy
\* only (columns, fill_value and group_by left to their defaults): missing_count and the
\* fill values come from df, the frame as it was passed
CleanMissingColumn(df, df_clean, col, strategy) ==
    CASE strategy = "drop" ->
            KeepRows(df_clean, {l \in Range(df_clean.index) : ~isnull(df_clean.data[col][l])})
      [] strategy = "fill" ->
            SetColumn(df_clean, col, df.dtype[col],
                      FillNa(df_clean, col,
                             IF df.dtype[col] = "num" THEN Median(ColValues(df, col))
                             ELSE ModeOrUnknown(ColValues(df, col))))
      [] strategy = "interpolate" /\ df.dtype[col] = "num" ->
            SetColumn(df_clean, col, "num",
                      AsColumn(df_clean, Interpolate(ColValues(df_clean, col))))
      \* 'group_fill' needs a group_by
      [] OTHER -> df_clean

RECURSIVE CleanMissingLoop(_, _, _, _)
CleanMissingLoop(df, df_clean, columns, strategy) ==
    IF columns = <<>> THEN df_clean
    ELSE IF IsNullCount(df, Head(columns)) = 0
         THEN CleanMissingLoop(df, df_clean, Tail(columns), strategy)
         ELSE CleanMissingLoop(df, CleanMissingColumn(df, df_clean, Head(columns), strategy),
                               Tail(columns), strategy)

\* DataCleaner.handle_missing_values(df, strategy=strategy)
DataCleaner_handle_missing_values(df, strategy) ==
    CleanMissingLoop(df, df, df.columns, strategy)

\* scipy.stats.mstats.winsorize(values, limits=[t, t]) with t = tn/td: with k = int(t * n),
\* the k smallest values become the (k+1)-th smallest and the k largest the (k+1)-th
\* largest, a missing value counting as the largest
Winsorize(vals, tn, td) ==
    LET k == (Len(vals) * tn) \div td
        S == RSort(DropNa(vals))
        At(i) == IF i <= Len(S) THEN S[i] ELSE NaN
        One(x, low, high) ==
            IF isnull(x) THEN (IF Len(vals) - Len(S) <= k THEN high ELSE NaN)
            ELSE IF isnull(low) THEN NaN
            ELSE IF RLt(x, low) THEN low
            ELSE IF ~isnull(high) /\ RLt(high, x) THEN high
            ELSE x
    IN  [i \in DOMAIN vals |-> One(vals[i], At(k + 1), At(Len(vals) - k))]

RECURSIVE WinsorizeLoop(_, _, _)
WinsorizeLoop(df, df_clean, columns) ==
    IF columns = <<>> THEN df_clean
    ELSE WinsorizeLoop(df,
             SetColumn(df_clean, Head(columns), "num",
                       AsColumn(df_clean, Winsorize(ColValues(df_clean, Head(columns)), 5, 100))),
             Tail(columns))

\* DataCleaner.handle_outliers(df): method 'winsorize' with threshold 0.05, on the
\* numeric columns
DataCleaner_handle_outliers(df) == WinsorizeLoop(df, df, NumericColumns(df))

\* str.isspace of one character
IsSpace(code) == code \in {9, 10, 11, 12, 13, 32}

RECURSIVE LStrip(_)
LStrip(codes) ==
    IF codes # <<>> /\ IsSpace(Head(codes)) THEN LStrip(Tail(codes)) ELSE codes

RECURSIVE RStrip(_)
RStrip(codes) ==
    IF codes # <<>> /\ IsSpace(codes[Len(codes)])
    THEN RStrip(SubSeq(codes, 1, Len(codes) - 1))
    ELSE codes

\* str.lower, for the letters A to Z
Lower(codes) ==
    [i \in DOMAIN codes |-> IF codes[i] >= 65 /\ codes[i] <= 90 THEN codes[i] + 32 ELSE codes[i]]

RECURSIVE CollapseSpaces(_)
\* re.sub(r'\s+', ' ', s)
CollapseSpaces(codes) ==
    IF codes = <<>> THEN <<>>
    ELSE IF IsSpace(Head(codes))
         THEN <<32>> \o CollapseSpaces(LStrip(codes))
         ELSE <<Head(codes)>> \o CollapseSpaces(Tail(codes))

\* the strings that fix_inconsistencies takes for empty: '', 'nan', 'none', 'null'
EmptyStrings == {<<>>, <<110, 97, 110>>, <<110, 111, 110, 101>>, <<110, 117, 108, 108>>}

\* one cell of a text column through lines 164-170: astype(str), strip, lower, the
\* empty strings replaced by NaN, runs of white space replaced by one space
FixCell(c) ==
    LET Of(s) == IF s \in EmptyStrings THEN NaN ELSE <<CollapseSpaces(s)>>
    IN  Of(Lower(RStrip(LStrip(AsStr(c)))))

RECURSIVE FixLoop(_, _)
FixLoop(df_clean, columns) ==
    IF columns = <<>> THEN df_clean
    ELSE FixLoop(SetColumn(df_clean, Head(columns), "obj",
                           [l \in Range(df_clean.index) |->
                               FixCell(df_clean.data[Head(columns)][l])]),
                 Tail(columns))

\* DataCleaner.fix_inconsistencies(df)
fix_inconsistencies(df) == FixLoop(df, ObjectColumns(df))

\* DataCleaner.clean_data called without further keyword arguments
clean_data(df, missing_strategy, remove_dups, handle_outl, fix_incons) ==
    LET Fixed(d) == IF fix_incons THEN fix_inconsistencies(d) ELSE d
        Treated(d) == Fixed(IF handle_outl THEN DataCleaner_handle_outliers(d) ELSE d)
        Deduplicated(d) ==
            Treated(IF remove_dups THEN DataCleaner_remove_duplicates(d, <<None>>, "first")
                    ELSE d)
    IN  Deduplicated(IF missing_strategy # "none"
                     THEN DataCleaner_handle_missing_values(df, missing_strategy)
                     ELSE df)

----------------------------------------------------------------------------

(* Inputs of the model *)

\* a frame of the given columns from its rows (each a tuple of cells), labelled 0..n-1
Frame(columns, dtypes, rows) ==
    [index |-> [i \in DOMAIN rows |-> i - 1],
     columns |-> columns,
     dtype |-> [c \in Range(columns) |-> dtypes[IndexOf(columns, c)]],
     data |-> [c \in Range(columns) |->
                  [l \in 0..(Len(rows) - 1) |-> rows[l + 1][IndexOf(columns, c)]]]]

\* the first n rows of a frame
HeadRows(df, n) == KeepRows(df, {df.index[i] : i \in 1..(IF n < Len(df.index) THEN n ELSE Len(df.index))})

\* string cells of the sample tables
sA == <<<<65>>>>
sB == <<<<66>>>>
sC == <<<<67>>>>
sG1 == <<<<71, 49>>>>
sG2 == <<<<71, 50>>>>
sDate1 == <<<<50, 48, 50, 52, 45, 48, 49, 45, 49, 53>>>>
sDate2 == <<<<50, 48, 50, 51, 45, 49, 49, 45, 48, 52>>>>

\* the end-to-end example of the specification: a = [1, 2, null, 1000]
ExampleFrame ==
    Frame(<<"a">>, <<"num">>, << <<Num(1)>>, <<Num(2)>>, <<NaN>>, <<Num(1000)>> >>)

\* a numeric column with an outlier and a missing cell, a category, a group key, and
\* a duplicated row (after the test data of the module's __main__ block)
MixedFrame ==
    Frame(<<"a", "c", "g">>, <<"num", "obj", "obj">>,
          << <<Num(1), sA, sG1>>, <<Num(1), sA, sG1>>, <<Num(1), sB, sG2>>,
             <<Num(100), sA, sG2>>, <<NaN, sC, sG1>>, <<Num(1), sB, sG1>> >>)

\* two numeric columns that flag the same row, and a column of dates
TwoColumnFrame ==
    Frame(<<"a", "b", "d">>, <<"num", "num", "obj">>,
          << <<Num(0), Num(2), sDate1>>, <<Num(0), Num(2), sDate2>>,
             <<Num(0), Num(2), sDate1>>, <<Num(50), Num(90), sDate2>>,
             <<Num(0), Num(2), NaN>>, <<Num(-3), NaN, sDate1>> >>)

\* a frame without columns
NoColumnsFrame == Frame(<<>>, <<>>, <<>>)

\* a column whose quartiles move when its missing cells are filled with the mean
SkewFrame ==
    Frame(<<"a">>, <<"num">>, << <<NaN>>, <<NaN>>, <<Num(1)>>, <<Num(2)>>, <<Num(3)>> >>)

SampleFrames == {ExampleFrame, MixedFrame, TwoColumnFrame, SkewFrame}

MaxRows == 6
MaxOverrides == 1

\* the input frames: the first n rows of the samples (n = 0: a frame without rows),
\* and the frame without columns
InputFrames == {HeadRows(f, n) : f \in SampleFrames, n \in 0..MaxRows} \cup {NoColumnsFrame}

\* configs that change one option of the default config, or the options that one
\* feature needs together
OneOverride ==
    LET d == get_hybrid_config
    IN  {[d EXCEPT !.detect_outliers = FALSE],
         [d EXCEPT !.outlier_methods = {"iqr"}],
         [d EXCEPT !.outlier_methods = {"zscore"}],
         [d EXCEPT !.handle_missing = FALSE],
         [d EXCEPT !.missing_strategy = "median"],
         [d EXCEPT !.missing_strategy = "mode"],
         [d EXCEPT !.missing_strategy = "group_mean"],
         [d EXCEPT !.missing_strategy = "knn"],
         [d EXCEPT !.missing_strategy = "drop"],
         [d EXCEPT !.missing_threshold = <<1, 10>>],
         [d EXCEPT !.group_by = "g"],
         [d EXCEPT !.group_by = "nope"],
         [d EXCEPT !.remove_duplicates = FALSE],
         [d EXCEPT !.handle_outliers = FALSE],
         [d EXCEPT !.outlier_method = "cap"],
         [d EXCEPT !.outlier_method = "remove"],
         [d EXCEPT !.outlier_method = "transform"],
         [d EXCEPT !.apply_transformations = TRUE, !.transform_columns = <<"a">>],
         [d EXCEPT !.apply_transformations = TRUE, !.transform_columns = <<"a">>,
                   !.transformations = <<"boxcox", "sqrt", "square">>],
         [d EXCEPT !.normalize_by_group = TRUE, !.normalize_columns = <<"a">>],
         [d EXCEPT !.normalize_by_group = TRUE, !.normalize_columns = <<"a">>,
                   !.group_by = "g"],
         [d EXCEPT !.normalize_by_group = TRUE, !.normalize_columns = <<"a">>,
                   !.group_by = "g", !.group_normalization_method = "standard"],
         [d EXCEPT !.normalize_by_group = TRUE, !.normalize_columns = <<"a">>,
                   !.group_by = "g", !.outlier_methods = {"zscore"}],
         [d EXCEPT !.normalize_global = FALSE],
         [d EXCEPT !.normalization_method = "minmax"],
         [d EXCEPT !.normalization_method = "robust"],
         [d EXCEPT !.encode_categorical = FALSE],
         [d EXCEPT !.encoding_method = "onehot"],
         [d EXCEPT !.encoding_method = "frequency"],
         [d EXCEPT !.max_categories = 1],
         [d EXCEPT !.normalize_dates = FALSE],
         [d EXCEPT !.extract_date_features = FALSE]}

\* c1 with the options that c2 changes
Merge(c1, c2) ==
    [k \in DOMAIN get_hybrid_config |->
        IF c2[k] # get_hybrid_config[k] THEN c2[k] ELSE c1[k]]

RECURSIVE ConfigsUpTo(_)
\* the configs that differ from the default by at most n overrides
ConfigsUpTo(n) ==
    IF n = 0 THEN {get_hybrid_config}
    ELSE LET less == ConfigsUpTo(n - 1)
         IN  less \cup {Merge(c, o) : c \in less, o \in OneOverride}

InputConfigs == ConfigsUpTo(MaxOverrides)

----------------------------------------------------------------------------
(* The processor and a run of process_data_hybrid *)

VARIABLES
    pc,               \* where the run is: "idle", a stage, "returned" or "raised"
    df,               \* the frame passed to process_data_hybrid
    config,           \* the config passed to it
    df_processed,     \* the local df_processed
    outlier_results,  \* the local outlier_results
    outlier_stats,    \* self.outlier_stats
    scalers,          \* the keys of self.scalers
    encoders,         \* the keys of self.encoders
    executed,         \* the stages that have executed in this run, in order
    error,            \* the exception that left the run, "" when none
    args,             \* the arguments of a direct call of one method
    history           \* what the calls made so far on this instance came back with

vars == <<pc, df, config, df_processed, outlier_results, outlier_stats, scalers,
          encoders, executed, error, args, history>>

Stages == <<"detect_outliers", "handle_missing", "remove_duplicates", "handle_outliers",
            "apply_transformations", "normalize", "encode_categorical", "normalize_dates">>

\* a run whose third and fourth statements are exchanged: the treatment of the outliers
\* comes before the removal of the duplicates
NextPcExchanged(stage) ==
    CASE stage = "handle_missing" -> "handle_outliers"
      [] stage = "handle_outliers" -> "remove_duplicates"
      [] stage = "remove_duplicates" -> "apply_transformations"
      [] stage = "normalize_dates" -> "returned"
      [] OTHER -> Stages[IndexOf(Stages, stage) + 1]

\* a run whose last two stages are exchanged: the dates are normalized before the
\* categories are encoded
NextPcDatesFirst(stage) ==
    CASE stage = "normalize" -> "normalize_dates"
      [] stage = "normalize_dates" -> "encode_categorical"
      [] stage = "encode_categorical" -> "returned"
      [] OTHER -> Stages[IndexOf(Stages, stage) + 1]

\* the statement that follows a stage in process_data_hybrid (lines 288-359)
NextPc(stage) ==
    IF stage = Stages[Len(Stages)] THEN "returned" ELSE Stages[IndexOf(Stages, stage) + 1]

\* HybridDataProcessor.__init__
Init ==
    /\ pc = "idle"
    /\ df = NoColumnsFrame
    /\ config = get_hybrid_config
    /\ df_processed = NoColumnsFrame
    /\ outlier_results = <<>>
    /\ outlier_stats = <<>>
    /\ scalers = {}
    /\ encoders = {}
    /\ executed = <<>>
    /\ error = ""
    /\ args = <<>>
    /\ history = <<>>

\* lines 282-289 on an instance that is not in a run: the call, df_processed = df.copy()
\* and outlier_results = {}
Call(d, c) ==
    /\ df' = d
    /\ config' = c
    /\ df_processed' = d
    /\ outlier_results' = <<>>
    /\ executed' = <<>>
    /\ error' = ""
    /\ pc' = Stages[1]
    /\ UNCHANGED <<outlier_stats, scalers, encoders, args, history>>

\* the one run of a fresh instance
Start ==
    /\ pc = "idle"
    /\ history = <<>>
    /\ \E d \in InputFrames, c \in InputConfigs : Call(d, c)

\* a stage that is switched off: the run goes on to the next statement
Skip(stage) ==
    /\ pc' = NextPc(stage)
    /\ UNCHANGED <<df, config, df_processed, outlier_results, outlier_stats, scalers,
                   encoders, executed, error, args, history>>

\* the outcome of a stage that touches only df_processed: r = [err, df]
Finish(stage, name, r) ==
    /\ executed' = Append(executed, name)
    /\ IF r.err # ""
       THEN /\ pc' = "raised"
            /\ error' = r.err
            /\ UNCHANGED df_processed
       ELSE /\ pc' = NextPc(stage)
            /\ df_processed' = r.df
            /\ UNCHANGED error
    /\ UNCHANGED <<df, config, args, history>>

\* lines 288-296
StageDetectOutliers ==
    /\ pc = "detect_outliers"
    /\ IF config.detect_outliers
       THEN LET r == detect_outliers_comprehensive(df_processed, config.outlier_columns,
                         config.outlier_methods, config.group_by)
            IN  /\ executed' = Append(executed, "detect_outliers")
                /\ IF r.err # ""
                   THEN /\ pc' = "raised"
                        /\ error' = r.err
                        /\ UNCHANGED <<outlier_results, outlier_stats>>
                   ELSE /\ pc' = NextPc("detect_outliers")
                        /\ outlier_results' = r.results
                        /\ outlier_stats' = r.results
                        /\ UNCHANGED error
                /\ UNCHANGED <<df, config, df_processed, scalers, encoders, args, history>>
       ELSE Skip("detect_outliers")

\* lines 298-305
StageHandleMissing ==
    /\ pc = "handle_missing"
    /\ IF config.handle_missing
       THEN /\ Finish("handle_missing", "handle_missing",
                   handle_missing_values(df_processed, config.missing_strategy, <<None>>,
                                         config.group_by, config.missing_threshold))
            /\ UNCHANGED <<outlier_results, outlier_stats, scalers, encoders>>
       ELSE Skip("handle_missing")

\* lines 307-309
StageRemoveDuplicates ==
    /\ pc = "remove_duplicates"
    /\ IF config.remove_duplicates
       THEN /\ Finish("remove_duplicates", "remove_duplicates",
                   [err |-> "", df |-> remove_duplicates(df_processed, <<None>>, "first")])
            /\ UNCHANGED <<outlier_results, outlier_stats, scalers, encoders>>
       ELSE Skip("remove_duplicates")

\* lines 311-317
StageHandleOutliers ==
    /\ pc = "handle_outliers"
    /\ IF config.handle_outliers
       THEN /\ Finish("handle_outliers", "handle_outliers",
                   handle_outliers_hybrid(df_processed, config.outlier_method, TRUE,
                                          outlier_results, outlier_stats))
            /\ UNCHANGED <<outlier_results, outlier_stats, scalers, encoders>>
       ELSE Skip("handle_outliers")

\* lines 319-325
StageApplyTransformations ==
    /\ pc = "apply_transformations"
    /\ IF config.apply_transformations
       THEN /\ Finish("apply_transformations", "apply_transformations",
                   apply_transformations(df_processed, config.transform_columns,
                                         config.transformations))
            /\ UNCHANGED <<outlier_results, outlier_stats, scalers, encoders>>
       ELSE Skip("apply_transformations")

\* lines 327-339: the grouped normalization, or else the global one
StageNormalize ==
    /\ pc = "normalize"
    /\ IF config.normalize_by_group
       THEN /\ Finish("normalize", "normalize_by_group",
                   normalize_by_group(df_processed, config.normalize_columns,
                                      config.group_by, config.group_normalization_method))
            /\ UNCHANGED <<outlier_results, outlier_stats, scalers, encoders>>
       ELSE IF config.normalize_global
       THEN LET r == normalize_numerical(df_processed, config.normalization_method,
                                         <<None>>, scalers)
            IN  /\ Finish("normalize", "normalize_global", r)
                /\ scalers' = r.scalers
                /\ UNCHANGED <<outlier_results, outlier_stats, encoders>>
       ELSE Skip("normalize")

\* lines 341-347
StageEncodeCategorical ==
    /\ pc = "encode_categorical"
    /\ IF config.encode_categorical
       THEN LET r == encode_categorical(df_processed, config.encoding_method, <<None>>,
                                        config.max_categories, encoders)
            IN  /\ Finish("encode_categorical", "encode_categorical", r)
                /\ encoders' = r.encoders
                /\ UNCHANGED <<outlier_results, outlier_stats, scalers>>
       ELSE Skip("encode_categorical")

\* lines 349-356
StageNormalizeDates ==
    /\ pc = "normalize_dates"
    /\ IF config.normalize_dates
       THEN /\ Finish("normalize_dates", "normalize_dates",
                   normalize_dates(df_processed, config.date_columns, "%Y-%m-%d",
                                   config.extract_date_features))
            /\ UNCHANGED <<outlier_results, outlier_stats, scalers, encoders>>
       ELSE Skip("normalize_dates")

Next ==
    \/ Start
    \/ StageDetectOutliers
    \/ StageHandleMissing
    \/ StageRemoveDuplicates
    \/ StageHandleOutliers
    \/ StageApplyTransformations
    \/ StageNormalize
    \/ StageEncodeCategorical
    \/ StageNormalizeDates

Spec == Init /\ [][Next]_vars

----------------------------------------------------------------------------
(* An instance that is used for several runs, one after the other *)

MaxRuns == 3

\* the frames and configs of the runs of a reused instance
ReuseFrames == {MixedFrame, SkewFrame}
ReuseConfigs ==
    {get_hybrid_config,
     [get_hybrid_config EXCEPT !.detect_outliers = FALSE],
     [get_hybrid_config EXCEPT !.outlier_methods = {"iqr"}, !.outlier_method = "cap"],
     [get_hybrid_config EXCEPT !.detect_outliers = FALSE, !.encoding_method = "onehot",
                               !.normalization_method = "minmax"]}

\* process_data_hybrid is called again on the same instance
StartReuse ==
    /\ pc = "idle"
    /\ Len(history) < MaxRuns
    /\ \E d \in ReuseFrames, c \in ReuseConfigs : Call(d, c)

\* HybridDataProcessor.get_processing_report, from the attributes of the instance
\* (self.scalers and self.encoders as the sets of their keys); processing_stats is
\* never written and stays empty, processed_at is the time of the call
get_processing_report(self_outlier_stats, self_scalers, self_encoders) ==
    [processing_stats |-> <<>>,
     scalers_count |-> Cardinality(self_scalers),
     encoders_count |-> Cardinality(self_encoders),
     outlier_stats |-> self_outlier_stats]

\* line 359 (return df_processed) or the exception leaving the method: the caller has
\* the outcome of the run and asks for the report, the instance keeps its attributes
Return ==
    /\ pc \in {"returned", "raised"}
    /\ history' = Append(history, [df |-> df, config |-> config, error |-> error,
                                    result |-> IF pc = "returned" THEN df_processed
                                               ELSE NoColumnsFrame,
                                    report |-> get_processing_report(outlier_stats, scalers,
                                                                     encoders)])
    /\ pc' = "idle"
    /\ UNCHANGED <<df, config, df_processed, outlier_results, outlier_stats, scalers,
                   encoders, executed, error, args>>

NextReuse ==
    \/ StartReuse
    \/ StageDetectOutliers
    \/ StageHandleMissing
    \/ StageRemoveDuplicates
    \/ StageHandleOutliers
    \/ StageApplyTransformations
    \/ StageNormalize
    \/ StageEncodeCategorical
    \/ StageNormalizeDates
    \/ Return

SpecReuse == Init /\ [][NextReuse]_vars

----------------------------------------------------------------------------
(* A run without detection on an instance that holds the statistics of an earlier run *)

MaxStaleRuns == 2

\* the default config, whose detection fills self.outlier_stats, and the configs that
\* treat the outliers without detecting them, one for each outlier_method
StaleFrames == {ExampleFrame, MixedFrame}
StaleConfigs ==
    {get_hybrid_config}
    \cup {[get_hybrid_config EXCEPT !.detect_outliers = FALSE, !.outlier_method = m] :
             m \in {"winsorize", "cap", "remove", "transform"}}

\* process_data_hybrid is called on the instance, fresh or used
StartStale ==
    /\ pc = "idle"
    /\ Len(history) < MaxStaleRuns
    /\ \E d \in StaleFrames, c \in StaleConfigs : Call(d, c)

NextStale ==
    \/ StartStale
    \/ StageDetectOutliers
    \/ StageHandleMissing
    \/ StageRemoveDuplicates
    \/ StageHandleOutliers
    \/ StageApplyTransformations
    \/ StageNormalize
    \/ StageEncodeCategorical
    \/ StageNormalizeDates
    \/ Return

SpecStale == Init /\ [][NextStale]_vars

----------------------------------------------------------------------------
(* Two instances whose runs are interleaved stage by stage: the variables of the
   processor hold the run that is executing, args the run that waits.  Each run is
   first made alone on a fresh instance (history[1], history[2]), then both are made
   on two fresh instances with their stages interleaved *)

\* the attributes of an instance and the locals of its run of process_data_hybrid
RunState ==
    [pc |-> pc, df |-> df, config |-> config, df_processed |-> df_processed,
     outlier_results |-> outlier_results, outlier_stats |-> outlier_stats,
     scalers |-> scalers, encoders |-> encoders, executed |-> executed, error |-> error]

\* HybridDataProcessor() followed by lines 282-289 of its process_data_hybrid(d, c)
FreshRun(d, c) ==
    [pc |-> Stages[1], df |-> d, config |-> c, df_processed |-> d,
     outlier_results |-> <<>>, outlier_stats |-> <<>>, scalers |-> {}, encoders |-> {},
     executed |-> <<>>, error |-> ""]

\* a waiting run that found the attributes of the running instance in place of its own
ResumeSharedAttributes(waiting, running) ==
    [waiting EXCEPT !.outlier_stats = running.outlier_stats,
                    !.scalers = running.scalers, !.encoders = running.encoders]

\* the state a waiting run resumes with: self.outlier_stats, self.scalers and
\* self.encoders are attributes of its own instance (lines 36-38), its frames are locals
Resume(waiting, running) == waiting

\* the run s becomes the executing one
Load(s) ==
    /\ pc' = s.pc
    /\ df' = s.df
    /\ config' = s.config
    /\ df_processed' = s.df_processed
    /\ outlier_results' = s.outlier_results
    /\ outlier_stats' = s.outlier_stats
    /\ scalers' = s.scalers
    /\ encoders' = s.encoders
    /\ executed' = s.executed
    /\ error' = s.error

\* what the caller of a finished run holds: the dataset or the failure, and the
\* outlier statistics and fit artifacts of the instance
RunOutcome(who) ==
    [who |-> who, df |-> df, config |-> config, error |-> error,
     result |-> IF pc = "returned" THEN df_processed ELSE NoColumnsFrame,
     outlier_stats |-> outlier_stats, scalers |-> scalers, encoders |-> encoders]

TwoFrames == {MixedFrame, SkewFrame}
TwoConfigs == ReuseConfigs

\* a run alone on a fresh instance
StartAlone ==
    /\ pc = "idle"
    /\ Len(history) < 2
    /\ \E d \in TwoFrames, c \in TwoConfigs : Load(FreshRun(d, c))
    /\ UNCHANGED <<args, history>>

ReturnAlone ==
    /\ pc \in {"returned", "raised"}
    /\ Len(history) < 2
    /\ history' = Append(history, RunOutcome(Len(history) + 1))
    /\ pc' = "idle"
    /\ UNCHANGED <<df, config, df_processed, outlier_results, outlier_stats, scalers,
                   encoders, executed, error, args>>

\* the same two runs on two fresh instances: the first executes, the second waits
StartBoth ==
    /\ pc = "idle"
    /\ Len(history) = 2
    /\ args = <<>>
    /\ Load(FreshRun(history[1].df, history[1].config))
    /\ args' = [who |-> 1, waiting |-> <<FreshRun(history[2].df, history[2].config)>>]
    /\ UNCHANGED history

\* between two stages the scheduler turns to the other run
Switch ==
    /\ pc \in Range(Stages)
    /\ Len(history) >= 2
    /\ args # <<>>
    /\ args.waiting # <<>>
    /\ Load(Resume(args.waiting[1], RunState))
    /\ args' = [who |-> 3 - args.who, waiting |-> <<RunState>>]
    /\ UNCHANGED history

\* the executing run returns or raises; the waiting run, if any, goes on
ReturnBoth ==
    /\ pc \in {"returned", "raised"}
    /\ Len(history) >= 2
    /\ history' = Append(history, RunOutcome(args.who))
    /\ IF args.waiting # <<>>
       THEN /\ Load(Resume(args.waiting[1], RunState))
            /\ args' = [who |-> 3 - args.who, waiting |-> <<>>]
       ELSE /\ pc' = "done"
            /\ UNCHANGED <<df, config, df_processed, outlier_results, outlier_stats, scalers,
                           encoders, executed, error, args>>

NextTwo ==
    \/ StartAlone
    \/ ReturnAlone
    \/ StartBoth
    \/ Switch
    \/ ReturnBoth
    \/ StageDetectOutliers
    \/ StageHandleMissing
    \/ StageRemoveDuplicates
    \/ StageHandleOutliers
    \/ StageApplyTransformations
    \/ StageNormalize
    \/ StageEncodeCategorical
    \/ StageNormalizeDates

SpecTwo == Init /\ [][NextTwo]_vars

----------------------------------------------------------------------------

(* Direct calls of one method of a fresh instance *)

\* the sequences of at most n elements of S
SeqsUpTo(S, n) == UNION {[1..k -> S] : k \in 0..n}

\* the instance before a direct call on frame d with arguments a
Direct(frames, arguments) ==
    /\ pc = "idle"
    /\ df \in frames
    /\ args \in arguments
    /\ config = get_hybrid_config
    /\ df_processed = df
    /\ outlier_results = <<>>
    /\ outlier_stats = <<>>
    /\ scalers = {}
    /\ encoders = {}
    /\ executed = <<>>
    /\ error = ""
    /\ history = <<>>

MaxCalls == 2
MaxDedupeRows == 3

\* tables with repeated rows, repeated cells and missing cells
DedupeFrames ==
    {Frame(<<"a", "c">>, <<"num", "obj">>, rows) :
        rows \in SeqsUpTo({<<Num(1), sA>>, <<Num(1), sB>>, <<Num(2), sA>>, <<NaN, sA>>},
                          MaxDedupeRows)}
DedupeArgs ==
    [class : {"HybridDataProcessor", "DataCleaner"},
     subset : {<<None>>, <<"a">>, <<"c">>, <<"a", "c">>}, keep : {"first", "last"}]

InitDedupe == Direct(DedupeFrames, DedupeArgs)

\* df_processed = processor.remove_duplicates(df_processed, subset, keep), the processor
\* a HybridDataProcessor or a DataCleaner
CallRemoveDuplicates ==
    /\ pc = "idle"
    /\ Len(history) < MaxCalls
    /\ df_processed' = IF args.class = "DataCleaner"
                       THEN DataCleaner_remove_duplicates(df_processed, args.subset, args.keep)
                       ELSE remove_duplicates(df_processed, args.subset, args.keep)
    /\ history' = Append(history, df_processed')
    /\ UNCHANGED <<pc, df, config, outlier_results, outlier_stats, scalers, encoders,
                   executed, error, args>>

SpecDedupe == InitDedupe /\ [][CallRemoveDuplicates]_vars

MaxMissingRows == 5

\* n rows: a numeric column a of which the first k cells are missing, a text column c
\* of which the first j cells are missing
MissingFrame(n, k, j) ==
    Frame(<<"a", "c">>, <<"num", "obj">>,
          [i \in 1..n |-> <<IF i <= k THEN NaN ELSE Num(i - k),
                            IF i <= j THEN NaN ELSE IF i % 2 = 0 THEN sA ELSE sB>>])
MissingFrames ==
    {MissingFrame(n, k, j) : n \in 1..MaxMissingRows, k \in 0..MaxMissingRows,
                             j \in 0..MaxMissingRows}
MissingArgs ==
    {[strategy |-> st, threshold |-> th,
      group_by |-> IF st = "group_mean" THEN "c" ELSE None] :
        st \in {"mean", "median", "mode", "group_mean", "knn", "drop"},
        th \in {<<1, 2>>, <<1, 10>>}}

InitMissing == Direct(MissingFrames, MissingArgs)

\* df_processed = processor.handle_missing_values(df, strategy, None, group_by, threshold)
CallHandleMissingValues ==
    /\ pc = "idle"
    /\ LET Outcome(r) ==
            /\ error' = r.err
            /\ df_processed' = r.df
            /\ pc' = IF r.err = "" THEN "returned" ELSE "raised"
       IN  Outcome(handle_missing_values(df, args.strategy, <<None>>, args.group_by,
                                         args.threshold))
    /\ UNCHANGED <<df, config, outlier_results, outlier_stats, scalers, encoders,
                   executed, args, history>>

SpecMissing == InitMissing /\ [][CallHandleMissingValues]_vars

MaxIqrRows == 4

\* the column [1, 2, 3, 4, 5, 100]
SixValuesFrame ==
    Frame(<<"a">>, <<"num">>,
          << <<Num(1)>>, <<Num(2)>>, <<Num(3)>>, <<Num(4)>>, <<Num(5)>>, <<Num(100)>> >>)

\* one numeric column of a few values, some far away, some missing
IqrFrames ==
    {Frame(<<"a">>, <<"num">>, rows) :
        rows \in SeqsUpTo({<<Num(1)>>, <<Num(2)>>, <<Num(5)>>, <<Num(100)>>, <<NaN>>},
                          MaxIqrRows)}
    \cup {SixValuesFrame}

InitIqr == Direct(IqrFrames, {[methods |-> {"iqr"}, group_by |-> None]})

\* outliers = processor.detect_outliers_comprehensive(df, None, methods, group_by)
CallDetectOutliers ==
    /\ pc = "idle"
    /\ LET Outcome(r) ==
            /\ error' = r.err
            /\ outlier_results' = r.results
            /\ outlier_stats' = IF r.err = "" THEN r.results ELSE outlier_stats
            /\ pc' = IF r.err = "" THEN "returned" ELSE "raised"
       IN  Outcome(detect_outliers_comprehensive(df, <<None>>, args.methods, args.group_by))
    /\ UNCHANGED <<df, config, df_processed, scalers, encoders, executed, args, history>>

SpecIqr == InitIqr /\ [][CallDetectOutliers]_vars

MaxLabelRows == 3

sAB == <<<<65, 66>>>>
sLowerA == <<<<97>>>>

\* one text column: upper and lower case, a prefix of another value, a missing cell
LabelFrames ==
    {Frame(<<"c">>, <<"obj">>, rows) :
        rows \in SeqsUpTo({<<sA>>, <<sAB>>, <<sLowerA>>, <<NaN>>}, MaxLabelRows)}

InitLabel == Direct(LabelFrames, {[method |-> "label"]})

\* the map from the values of column col of before to their codes in column col of after
ValueCodeMap(before, after, col) ==
    {<<before.data[col][l], after.data[col][l]>> : l \in Range(before.index)}

\* encoded = processor.encode_categorical(df, method): the rows of column c and its
\* value-to-code map are kept in history
CallEncodeCategorical ==
    /\ pc = "idle"
    /\ Len(history) < MaxCalls
    /\ LET Outcome(r) ==
            /\ error' = r.err
            /\ df_processed' = r.df
            /\ encoders' = r.encoders
            /\ history' = Append(history, [rows |-> ColValues(df, "c"),
                                            codes |-> ValueCodeMap(df, r.df, "c")])
       IN  Outcome(encode_categorical(df, args.method, <<None>>,
                                      get_hybrid_config.max_categories, encoders))
    /\ UNCHANGED <<pc, df, config, outlier_results, outlier_stats, scalers, executed, args>>

\* after a call, the same rows arrive in another order (relabelled 0..n-1)
Reorder ==
    /\ pc = "idle"
    /\ history # <<>>
    /\ history[Len(history)].rows = ColValues(df, "c")
    /\ \E p \in Permutations(1..Len(df.index)) :
          /\ p # [i \in 1..Len(df.index) |-> i]
          /\ df' = Frame(df.columns, <<"obj">>,
                         [i \in 1..Len(df.index) |-> <<df.data["c"][df.index[p[i]]]>>])
    /\ UNCHANGED <<pc, config, df_processed, outlier_results, outlier_stats, scalers,
                   encoders, executed, error, args, history>>

NextLabel == CallEncodeCategorical \/ Reorder

SpecLabel == InitLabel /\ [][NextLabel]_vars

InitFrequency == Direct(LabelFrames, {[method |-> "frequency"]})

SpecFrequency == InitFrequency /\ [][NextLabel]_vars

MaxGroupRows == 4

\* a numeric column a and a group column g: groups with and without values of a, rows
\* without a group key
GroupMeanFrames ==
    {Frame(<<"a", "g">>, <<"num", "obj">>, rows) :
        rows \in SeqsUpTo({<<Num(1), sG1>>, <<Num(4), sG1>>, <<NaN, sG1>>, <<Num(2), sG2>>,
                           <<NaN, sG2>>, <<NaN, NaN>>, <<Num(5), NaN>>}, MaxGroupRows)}

InitGroupMean ==
    Direct(GroupMeanFrames,
           {[strategy |-> "group_mean", threshold |-> th, group_by |-> "g"] :
               th \in {<<1, 2>>, <<1, 1>>}})

SpecGroupMean == InitGroupMean /\ [][CallHandleMissingValues]_vars

MaxMinMaxRows == 4

\* a numeric column a and a group column g: groups of one and of several distinct
\* values, missing cells
MinMaxFrames ==
    {Frame(<<"a", "g">>, <<"num", "obj">>, rows) :
        rows \in SeqsUpTo({<<Num(1), sG1>>, <<Num(2), sG1>>, <<Num(5), sG1>>, <<NaN, sG1>>,
                           <<Num(5), sG2>>, <<Num(7), sG2>>}, MaxMinMaxRows)}

InitMinMax ==
    Direct(MinMaxFrames,
           [normalizer : {"HybridDataProcessor.normalize_numerical",
                          "DataNormalizer.normalize_numerical",
                          "HybridDataProcessor.normalize_by_group"}])

\* one call of a normalizer with method minmax on column a: the global one of the
\* processor, the one of DataNormalizer, or the grouped one with group_by g
CallNormalizeMinMax ==
    /\ pc = "idle"
    /\ LET Outcome(r, keys) ==
            /\ error' = r.err
            /\ df_processed' = r.df
            /\ scalers' = keys
            /\ pc' = IF r.err = "" THEN "returned" ELSE "raised"
           Hybrid(r) == Outcome(r, r.scalers)
           Other(r) == Outcome(r, scalers)
       IN  CASE args.normalizer = "HybridDataProcessor.normalize_numerical" ->
                    Hybrid(normalize_numerical(df, "minmax", <<"a">>, scalers))
             [] args.normalizer = "DataNormalizer.normalize_numerical" ->
                    Other(DataNormalizer_normalize_numerical(df, <<"a">>, "minmax"))
             [] args.normalizer = "HybridDataProcessor.normalize_by_group" ->
                    Other(normalize_by_group(df, <<"a">>, "g", "minmax"))
    /\ UNCHANGED <<df, config, outlier_results, outlier_stats, encoders, executed, args,
                   history>>

SpecMinMax == InitMinMax /\ [][CallNormalizeMinMax]_vars

MaxEtlRows == 3

sSpace == <<<<32>>>>
sNULL == <<<<78, 85, 76, 76>>>>

\* a = 1 .. 20 with one text value: enough rows for the winsorization to move the
\* smallest and the largest value
TwentyRowsFrame ==
    Frame(<<"a", "c">>, <<"num", "obj">>, [i \in 1..20 |-> <<Num(i), sLowerA>>])

\* a numeric column a and a text column c: upper and lower case, a blank string, a
\* string that spells null, missing cells
EtlFrames ==
    {Frame(<<"a", "c">>, <<"num", "obj">>, rows) :
        rows \in SeqsUpTo({<<Num(1), sA>>, <<Num(1), sLowerA>>, <<Num(2), sA>>, <<NaN, sA>>,
                           <<Num(1), sSpace>>, <<Num(1), sNULL>>, <<Num(2), NaN>>},
                          MaxEtlRows)}
    \cup {TwentyRowsFrame}

\* the arguments of clean_data: the defaults ('fill', every step enabled), another
\* strategy, or one step disabled
EtlArgs ==
    LET defaults == [missing_strategy |-> "fill", remove_duplicates |-> TRUE,
                     handle_outliers |-> TRUE, fix_inconsistencies |-> TRUE]
    IN  {defaults,
         [defaults EXCEPT !.missing_strategy = "drop"],
         [defaults EXCEPT !.missing_strategy = "interpolate"],
         [defaults EXCEPT !.missing_strategy = "none"],
         [defaults EXCEPT !.remove_duplicates = FALSE],
         [defaults EXCEPT !.handle_outliers = FALSE],
         [defaults EXCEPT !.fix_inconsistencies = FALSE]}

InitEtl == Direct(EtlFrames, EtlArgs)

\* df_cleaned = DataCleaner().clean_data(df, missing_strategy, remove_duplicates,
\*                                       handle_outliers, fix_inconsistencies)
CallCleanData ==
    /\ pc = "idle"
    /\ df_processed' = clean_data(df, args.missing_strategy, args.remove_duplicates,
                                  args.handle_outliers, args.fix_inconsistencies)
    /\ pc' = "cleaned"
    /\ UNCHANGED <<df, config, outlier_results, outlier_stats, scalers, encoders,
                   executed, error, args, history>>

\* df_normalized = DataNormalizer().normalize_data(df_cleaned)
CallNormalizeData ==
    /\ pc = "cleaned"
    /\ LET Outcome(r) ==
            /\ error' = r.err
            /\ df_processed' = r.df
            /\ pc' = IF r.err = "" THEN "normalized" ELSE "raised"
       IN  Outcome(normalize_data(df_processed, "standard", "label"))
    /\ UNCHANGED <<df, config, outlier_results, outlier_stats, scalers, encoders,
                   executed, args, history>>

\* df_enriched = DataEnricher().enrich_data(df_normalized, conditional_columns={'r':
\* lambda df: df['a'] / df['c']})
CallEnrichData ==
    /\ pc = "normalized"
    /\ df_processed' = enrich_data(df_processed, <<[name |-> "r", num |-> "a", den |-> "c"]>>)
    /\ pc' = "enriched"
    /\ UNCHANGED <<df, config, outlier_results, outlier_stats, scalers, encoders,
                   executed, error, args, history>>

NextEtl == CallCleanData \/ CallNormalizeData \/ CallEnrichData

SpecEtl == InitEtl /\ [][NextEtl]_vars

MaxTransformRows == 3

\* a numeric column a next to a second numeric column, named b or a_log (the name of
\* the column that the log transformation of a derives)
TransformFrames ==
    {Frame(<<"a", second>>, <<"num", "num">>, rows) :
        second \in {"b", "a_log"},
        rows \in SeqsUpTo({<<Num(1), Num(7)>>, <<Num(0), Num(7)>>, <<NaN, Num(7)>>,
                           <<Num(-3), Num(8)>>, <<Num(4), NaN>>}, MaxTransformRows)}

TransformArgs ==
    [columns : {<<"a">>, <<"b">>, <<"a", "a_log">>, <<"nope">>},
     transformations : {<<>>, <<"log">>, <<"boxcox">>, <<"sqrt", "square">>,
                        <<"log", "boxcox", "sqrt">>}]

InitTransform == Direct(TransformFrames, TransformArgs)

\* df_processed = processor.apply_transformations(df, columns, transformations)
CallApplyTransformations ==
    /\ pc = "idle"
    /\ LET Outcome(r) ==
            /\ error' = r.err
            /\ df_processed' = r.df
            /\ pc' = IF r.err = "" THEN "returned" ELSE "raised"
       IN  Outcome(apply_transformations(df, args.columns, args.transformations))
    /\ UNCHANGED <<df, config, outlier_results, outlier_stats, scalers, encoders,
                   executed, args, history>>

SpecTransform == InitTransform /\ [][CallApplyTransformations]_vars

MaxRemoveRows == 4

\* a = [1, 1, 1, 1, 1, 1, 100, 100], b = 1: the two last rows are equal and both are
\* flagged by the IQR method
RepeatedOutlierFrame ==
    Frame(<<"a", "b">>, <<"num", "num">>,
          [i \in 1..8 |-> <<IF i <= 6 THEN Num(1) ELSE Num(100), Num(1)>>])

\* two numeric columns of the values 1 and 100: with four rows, a single 100 among
\* three 1 is flagged by the IQR method
RemoveFrames ==
    {Frame(<<"a", "b">>, <<"num", "num">>, rows) :
        rows \in SeqsUpTo({<<Num(1), Num(1)>>, <<Num(100), Num(1)>>, <<Num(1), Num(100)>>,
                           <<Num(100), Num(100)>>}, MaxRemoveRows)}
    \cup {RepeatedOutlierFrame}

InitRemove == Direct(RemoveFrames, {[methods |-> {"iqr"}, group_by |-> None]})

\* line 309 between the detection and the treatment
DedupeBeforeTreatment ==
    /\ pc = "returned"
    /\ history = <<>>
    /\ df_processed' = remove_duplicates(df_processed, <<None>>, "first")
    /\ pc' = "deduplicated"
    /\ UNCHANGED <<df, config, outlier_results, outlier_stats, scalers, encoders,
                   executed, error, args, history>>

\* lines 313-317 with method 'remove' and the report of the detection; history keeps
\* the frame that was passed
CallTreatRemove ==
    /\ pc \in {"returned", "deduplicated"}
    /\ history = <<>>
    /\ LET Outcome(r) ==
            /\ error' = r.err
            /\ df_processed' = r.df
            /\ pc' = IF r.err = "" THEN "treated" ELSE "raised"
       IN  Outcome(handle_outliers_hybrid(df_processed, "remove", TRUE, outlier_results,
                                          outlier_stats))
    /\ history' = <<df_processed>>
    /\ UNCHANGED <<df, config, outlier_results, outlier_stats, scalers, encoders,
                   executed, args>>

NextRemove == CallDetectOutliers \/ DedupeBeforeTreatment \/ CallTreatRemove

SpecRemove == InitRemove /\ [][NextRemove]_vars

MaxDegenerateRows == 4

\* one numeric column of the values 1 and 5 and of missing cells: constant columns, and
\* columns such as [1, 1, 1, 5] whose median absolute deviation is 0
DegenerateFrames ==
    {Frame(<<"a">>, <<"num">>, rows) :
        rows \in SeqsUpTo({<<Num(1)>>, <<Num(5)>>, <<NaN>>}, MaxDegenerateRows)}

InitDegenerate ==
    Direct(DegenerateFrames, [method : {"standard", "minmax", "robust"}])

\* df_processed = processor.normalize_numerical(df, method)
CallNormalizeNumerical ==
    /\ pc = "idle"
    /\ LET Outcome(r) ==
            /\ error' = r.err
            /\ df_processed' = r.df
            /\ scalers' = r.scalers
            /\ pc' = IF r.err = "" THEN "returned" ELSE "raised"
       IN  Outcome(normalize_numerical(df, args.method, <<None>>, scalers))
    /\ UNCHANGED <<df, config, outlier_results, outlier_stats, encoders, executed, args,
                   history>>

SpecDegenerate == InitDegenerate /\ [][CallNormalizeNumerical]_vars

MaxOneHotRows == 3

\* the frame with its rows labelled first, first + 1, ... (first = 1: the frame that a
\* caller is left with after dropping the row labelled 0 of a longer one)
Relabelled(frame, first) ==
    [index |-> [i \in DOMAIN frame.index |-> first + i - 1],
     columns |-> frame.columns,
     dtype |-> frame.dtype,
     data |-> [c \in Range(frame.columns) |->
                  [l \in first..(first + Len(frame.index) - 1) |->
                      frame.data[c][frame.index[l - first + 1]]]]]

\* two text columns, c of the values A, B and of missing cells, d of the values A, B
OneHotFrames ==
    {Relabelled(Frame(<<"c", "d">>, <<"obj", "obj">>, rows), first) :
        rows \in SeqsUpTo({<<sA, sA>>, <<sA, sB>>, <<sB, sA>>, <<sB, sB>>,
                           <<NaN, sA>>, <<NaN, sB>>}, MaxOneHotRows),
        first \in {0, 1}}

InitOneHot == Direct(OneHotFrames, [method : {"onehot"}, max_categories : {1, 2}])

\* df_processed = processor.encode_categorical(df, 'onehot', max_categories=...)
CallEncodeOneHot ==
    /\ pc = "idle"
    /\ LET Outcome(r) ==
            /\ error' = r.err
            /\ df_processed' = r.df
            /\ encoders' = r.encoders
            /\ pc' = IF r.err = "" THEN "returned" ELSE "raised"
       IN  Outcome(encode_categorical(df, args.method, <<None>>, args.max_categories,
                                      encoders))
    /\ UNCHANGED <<df, config, outlier_results, outlier_stats, scalers, executed, args,
                   history>>

SpecOneHot == InitOneHot /\ [][CallEncodeOneHot]_vars

MaxDateRows == 3

\* '2024-01-06', a Saturday
sSaturday == <<<<50, 48, 50, 52, 45, 48, 49, 45, 48, 54>>>>

\* one text column of dates, of a word that is no date, and of missing cells
DateFrames ==
    {Frame(<<"c">>, <<"obj">>, rows) :
        rows \in SeqsUpTo({<<sDate1>>, <<sSaturday>>, <<sA>>, <<NaN>>}, MaxDateRows)}

InitDates ==
    Direct(DateFrames, [date_columns : {<<None>>, <<"c">>}, extract_features : BOOLEAN])

\* df_processed = processor.normalize_dates(df, date_columns, extract_features=...)
CallNormalizeDates ==
    /\ pc = "idle"
    /\ LET Outcome(r) ==
            /\ error' = r.err
            /\ df_processed' = r.df
            /\ pc' = IF r.err = "" THEN "returned" ELSE "raised"
       IN  Outcome(normalize_dates(df, args.date_columns, "%Y-%m-%d",
                                   args.extract_features))
    /\ UNCHANGED <<df, config, outlier_results, outlier_stats, scalers, encoders,
                   executed, args, history>>

SpecDates == InitDates /\ [][CallNormalizeDates]_vars

MaxColumnsRows == 2

\* two numeric columns a and b and a text column c between them
ColumnsFrames ==
    {Frame(<<"a", "c", "b">>, <<"num", "obj", "num">>, rows) :
        rows \in SeqsUpTo({<<a, c, b>> : a \in {Num(1), Num(100)}, c \in {sA, sB},
                                         b \in {Num(1), Num(2)}}, MaxColumnsRows)}

InitColumns ==
    Direct(ColumnsFrames,
           [columns : {<<"a", "b">>, <<"a", "c">>, <<"c", "a">>, <<"a", "c", "b">>},
            methods : SUBSET {"iqr", "zscore"}])

\* outliers = processor.detect_outliers_comprehensive(df, columns, methods)
CallDetectColumns ==
    /\ pc = "idle"
    /\ LET Outcome(r) ==
            /\ error' = r.err
            /\ outlier_results' = IF r.err = "" THEN r.results ELSE outlier_results
            /\ outlier_stats' = IF r.err = "" THEN r.results ELSE outlier_stats
            /\ pc' = IF r.err = "" THEN "returned" ELSE "raised"
       IN  Outcome(detect_outliers_comprehensive(df, args.columns, args.methods, None))
    /\ UNCHANGED <<df, config, df_processed, scalers, encoders, executed, args, history>>

SpecColumns == InitColumns /\ [][CallDetectColumns]_vars

MaxGroupIqrRows == 3

\* a numeric column a and a group key g: a text key (G1, G2), or a numeric key (0, 1, 2),
\* which can coincide with the row labels
GroupIqrFrames ==
    {Frame(<<"a", "g">>, <<"num", "obj">>, rows) :
        rows \in SeqsUpTo({<<a, g>> : a \in {Num(1), Num(2), Num(100)}, g \in {sG1, sG2}},
                          MaxGroupIqrRows)}
    \cup {Frame(<<"a", "g">>, <<"num", "num">>, rows) :
        rows \in SeqsUpTo({<<a, g>> : a \in {Num(1), Num(2), Num(100)},
                                      g \in {Num(0), Num(1), Num(2)}}, MaxGroupIqrRows)}

InitGroupIqr == Direct(GroupIqrFrames, {[methods |-> {"iqr"}, group_by |-> "g"]})

SpecGroupIqr == InitGroupIqr /\ [][CallDetectOutliers]_vars

MaxModeRows == 4

\* one numeric column of the values 1, 2, 5 and of missing cells, in any order
ModeFrames ==
    {Frame(<<"a">>, <<"num">>, rows) :
        rows \in SeqsUpTo({<<Num(1)>>, <<Num(2)>>, <<Num(5)>>, <<NaN>>}, MaxModeRows)}

InitMode ==
    Direct(ModeFrames,
           [strategy : {"mode"}, threshold : {<<1, 2>>, <<1, 1>>}, group_by : {None}])

SpecMode == InitMode /\ [][CallHandleMissingValues]_vars

MaxCapRows == 3

\* two numeric columns, each with a value far from the others
CapFrames ==
    {Frame(<<"a", "b">>, <<"num", "num">>, rows) :
        rows \in SeqsUpTo({<<a, b>> : a \in {Num(1), Num(100)}, b \in {Num(1), Num(50)}},
                          MaxCapRows)}

InitCap == Direct(CapFrames, {[method |-> "cap"]})

\* the reports handed to the treatment: the empty one, and the ones that a detection of
\* the given columns of the frame returns
CapReports(frame) ==
    {<<>>} \cup {detect_outliers_comprehensive(frame, columns, {"iqr"}, None).results :
                    columns \in {<<"a">>, <<"b">>, <<"a", "b">>}}

\* treated = processor.handle_outliers_hybrid(df, 'cap', report): the report and the
\* result are kept in history
CallTreatCap ==
    /\ pc = "idle"
    /\ Len(history) < MaxCalls
    /\ \E report \in CapReports(df) :
          LET Outcome(r) ==
                /\ error' = r.err
                /\ df_processed' = r.df
                /\ history' = Append(history, [report |-> report, err |-> r.err, df |-> r.df])
          IN  Outcome(handle_outliers_hybrid(df, args.method, TRUE, report, outlier_stats))
    /\ UNCHANGED <<pc, df, config, outlier_results, outlier_stats, scalers, encoders,
                   executed, args>>

SpecCap == InitCap /\ [][CallTreatCap]_vars

----------------------------------------------------------------------------
(* Properties of a run of process_data_hybrid (specification Spec) *)

\* C1: no failure raised inside a stage reaches the caller of process_data_hybrid: the
\* run never ends by an exception (it would be caught and the later stages would run).
\* process_data_hybrid has no try/except, so this fails.
C1_NoStageFailureReachesCaller == pc # "raised"

\* C2: the stages that execute form the fixed order detect, impute, dedupe, treat,
\* transform, normalize, encode, dates: each at most once, none after a later one, only
\* enabled ones, all the enabled ones when the run returns, and the global normalization
\* never when the grouped one is enabled.
C2_FixedStageOrder ==
    LET Position(name) ==
            IF name \in {"normalize_by_group", "normalize_global"}
            THEN IndexOf(Stages, "normalize") ELSE IndexOf(Stages, name)
        Enabled(name) ==
            CASE name = "normalize_by_group" -> config.normalize_by_group
              [] name = "normalize_global" ->
                    config.normalize_global /\ ~config.normalize_by_group
              [] OTHER -> config[name]
        Names == {"detect_outliers", "handle_missing", "remove_duplicates",
                  "handle_outliers", "apply_transformations", "normalize_by_group",
                  "normalize_global", "encode_categorical", "normalize_dates"}
    IN  /\ \A i \in DOMAIN executed : executed[i] \in Names /\ Enabled(executed[i])
        /\ \A i, j \in DOMAIN executed :
              i < j => Position(executed[i]) < Position(executed[j])
        /\ pc = "returned" => \A name \in Names : Enabled(name) => SeqContains(executed, name)

\* a run with both normalizations enabled has returned after seven stages, the grouped
\* normalization among them
C2_Witness ==
    /\ pc = "returned"
    /\ config.normalize_by_group /\ config.normalize_global
    /\ Len(executed) = 7
    /\ executed[1] = "detect_outliers"
    /\ executed[5] = "normalize_by_group"
    /\ executed[7] = "normalize_dates"

\* the configuration of the end-to-end example: mean imputation, IQR detection, winsorize
C3_Config ==
    /\ config.detect_outliers /\ config.outlier_methods = {"iqr"}
    /\ config.outlier_columns = <<None>> /\ config.group_by = None
    /\ config.handle_missing /\ config.missing_strategy = "mean"
    /\ config.missing_threshold = <<1, 2>>
    /\ config.handle_outliers /\ config.outlier_method = "winsorize"

\* C3 (as the code has it): in a run with mean imputation, IQR detection and winsorize,
\* right after the treatment stage every numeric column that is left holds, in each row,
\* the imputed cell (the cell, or the mean of the column's non-missing cells) clipped to
\* the IQR bounds of the column's non-missing cells BEFORE imputation: no cell is missing
\* and none is above that upper bound.
C3_ClipBoundsBeforeImputation ==
    (C3_Config /\ pc = "apply_transformations") =>
        \A c \in Range(NumericColumns(df)) \cap Range(df_processed.columns) :
            \A l \in Range(df_processed.index) :
                LET b == IqrBounds(DropNa(ColValues(df, c)))
                    x == IF isnull(df.data[c][l]) THEN Mean(ColValues(df, c))
                         ELSE df.data[c][l]
                    y == df_processed.data[c][l]
                IN  /\ IsRat(y)
                    /\ ~RLt(b.upper, y)
                    /\ y = (IF RLt(x, b.lower) THEN b.lower
                            ELSE IF RLt(b.upper, x) THEN b.upper ELSE x)

\* the example a = [1, 2, null, 1000] right after the treatment: the null is 1003/3 and
\* the 1000 is still 1000 (the bound is 1250.25)
C3_Witness ==
    /\ C3_Config /\ pc = "apply_transformations"
    /\ df = ExampleFrame
    /\ executed = <<"detect_outliers", "handle_missing", "remove_duplicates",
                    "handle_outliers">>
    /\ outlier_results[1].iqr.upper = <<5001, 4>>
    /\ df_processed.data["a"][2] = <<1003, 3>>
    /\ df_processed.data["a"][3] = Num(1000)

\* C3 as stated: the bounds the treatment clips to are the IQR bounds of the column's
\* values after imputation.
C3_ClipBoundsAfterImputation ==
    (C3_Config /\ pc = "apply_transformations") =>
        \A c \in Range(NumericColumns(df)) \cap Range(df_processed.columns) :
            LET imputed == [i \in DOMAIN df.index |->
                               IF isnull(df.data[c][df.index[i]])
                               THEN Mean(ColValues(df, c)) ELSE df.data[c][df.index[i]]]
                b == IqrBounds(imputed)
            IN  /\ \A k \in DOMAIN outlier_results :
                      outlier_results[k].col = c =>
                          /\ outlier_results[k].iqr.lower = b.lower
                          /\ outlier_results[k].iqr.upper = b.upper
                /\ \A l \in Range(df_processed.index) :
                      LET x == imputed[l + 1]
                      IN  df_processed.data[c][l] =
                              (IF FLt(x, b.lower) THEN b.lower
                               ELSE IF FLt(b.upper, x) THEN b.upper ELSE x)

\* C4: a config whose group_by names a column that the frame does not have is rejected
\* before any stage executes: no stage has executed, no attribute of the instance has
\* changed, and the run does not return a dataset.  The code checks nothing at the start,
\* so this fails.
C4_AbsentGroupByRejectedAtStart ==
    (pc # "idle" /\ config.group_by # None /\ ~HasColumn(df, config.group_by)) =>
        /\ executed = <<>>
        /\ outlier_stats = <<>> /\ scalers = {} /\ encoders = {}
        /\ pc # "returned"

\* C5: a run on a frame without rows or without columns does not return a dataset.  The
\* code has no such check, so this fails.
C5_MalformedInputAborts ==
    (pc # "idle" /\ (df.index = <<>> \/ df.columns = <<>>)) => pc # "returned"

----------------------------------------------------------------------------
(* Properties of the runs of a reused instance (specification SpecReuse) *)

\* C6: two runs with equal input frames and equal configs come back with equal
\* datasets (and equal failures), the first run of the instance being a run on a fresh
\* instance and the later ones runs on an instance that earlier runs have used.
C6_EqualRunsEqualResults ==
    \A i, j \in DOMAIN history :
        (history[i].df = history[j].df /\ history[i].config = history[j].config) =>
            /\ history[i].result = history[j].result
            /\ history[i].error = history[j].error

\* a run without detection on a fresh instance, a run with detection on another frame,
\* and the first run again: its treatment stage finds the statistics of the second run
\* in self.outlier_stats
C6_Witness ==
    /\ Len(history) = MaxRuns
    /\ history[1].df = history[3].df /\ history[1].config = history[3].config
    /\ ~history[1].config.detect_outliers /\ history[1].config.handle_outliers
    /\ history[2].config.detect_outliers /\ history[2].df # history[1].df
    /\ outlier_stats # <<>>
    /\ history[3].error = "" /\ history[3].result.index # <<>>

----------------------------------------------------------------------------
(* Properties of direct calls (specifications SpecDedupe, SpecMissing, SpecIqr and
   SpecLabel) *)

\* C7: remove_duplicates is idempotent, for every table, every subset of its columns
\* and keep first or last: a second call returns what the first call returned, and
\* removes no row.
C7_RemoveDuplicatesIdempotent ==
    \A i \in DOMAIN history :
        /\ history[i] = history[1]
        /\ Len(history[i].index) = Len(history[1].index)

\* two calls on a table from which the first call removed rows, by a subset of columns
C7_Witness ==
    /\ Len(history) = 2
    /\ args.subset = <<"a">> /\ args.keep = "last"
    /\ Len(df.index) = 3
    /\ Len(history[1].index) = 1
    /\ history[2] = history[1]

C9_IqrFlagsExactlyOutsideFences ==
    pc = "returned" =>
        LET values == DropNa(ColValues(df, "a"))
            q1 == Quantile(values, 1, 4)
            q3 == Quantile(values, 3, 4)
            Below(x) == RLt(RAdd(x, RMul(<<3, 2>>, RSub(q3, q1))), q1)
            Above(x) == RLt(RAdd(q3, RMul(<<3, 2>>, RSub(q3, q1))), x)
            outside == IF values = <<>> THEN {}
                       ELSE {l \in Range(df.index) :
                                /\ ~isnull(df.data["a"][l])
                                /\ Below(df.data["a"][l]) \/ Above(df.data["a"][l])}
            flagged == outlier_results[1].iqr.outliers
        IN  /\ Len(outlier_results) = 1 /\ outlier_results[1].col = "a"
            /\ Range(flagged) = outside
            /\ \A i, j \in DOMAIN flagged : i < j => flagged[i] < flagged[j]
            /\ df = SixValuesFrame => flagged = <<5>>

\* the detection has run on [1, 2, 3, 4, 5, 100]: the bounds are -1.5 and 8.5 and the
\* sixth row is the one flagged
C9_Witness ==
    /\ pc = "returned"
    /\ df = SixValuesFrame
    /\ outlier_results[1].iqr.lower = <<-3, 2>>
    /\ outlier_results[1].iqr.upper = <<17, 2>>
    /\ outlier_results[1].iqr.outliers = <<5>>

\* C10: label encoding gives a cell the rank (from 0) of its value in the sorted
\* lexicographic order of the distinct values of the column, a missing cell counting
\* as the string 'nan'; the value-to-code map is the same whatever the order of the rows.
C10_LabelCodeIsSortedRank ==
    LET strings == {AsStr(df.data["c"][l]) : l \in Range(df.index)}
        Rank(v) == Cardinality({w \in strings : LexLt(w, AsStr(v))})
    IN  \A i \in DOMAIN history :
            /\ \A vc \in history[i].codes : vc[2] = Num(Rank(vc[1]))
            /\ {vc[1] : vc \in history[i].codes} = Range(history[i].rows)
            /\ history[i].codes = history[1].codes

\* two encodings of the same three values in two different row orders, the first one
\* of rows that are not in sorted order
C10_Witness ==
    /\ Len(history) = 2
    /\ history[1].rows = <<NaN, sLowerA, sAB>>
    /\ history[2].rows = <<sAB, NaN, sLowerA>>
    /\ history[1].codes = {<<NaN, Num(2)>>, <<sLowerA, Num(1)>>, <<sAB, Num(0)>>}
    /\ history[2].codes = history[1].codes

----------------------------------------------------------------------------
(* Properties of group-wise imputation (specification SpecGroupMean) *)

\* C11: with strategy group_mean and a group_by column, every missing cell of a targeted
\* column (one that has missing cells and is kept) in a row that has a group is filled
\* with the sum of the non-missing values of its group divided by their number, it
\* stays missing where its group has no value, and a cell that was present in such a
\* row keeps its value
C11_MissingFilledWithMeanOfOwnGroup ==
    (pc = "returned" /\ IsNullCount(df, "a") > 0 /\ HasColumn(df_processed, "a")) =>
        \A l \in Range(df.index) :
            LET own == {m \in Range(df.index) :
                            /\ df.data["g"][m] = df.data["g"][l]
                            /\ ~isnull(df.data["a"][m])}
                ownVals == [i \in 1..Cardinality(own) |->
                               df.data["a"][SelectSeqBy(df.index, own)[i]]]
            IN  isnull(df.data["g"][l]) \/
                df_processed.data["a"][l] =
                    IF ~isnull(df.data["a"][l]) THEN df.data["a"][l]
                    ELSE IF own = {} THEN NaN
                    ELSE RDiv(RSum(ownVals), Num(Cardinality(own)))

\* a call that filled a cell of one group with the mean of that group (1 and 4 give
\* 5/2) and left the cell of a group without values missing, the column holding
\* values elsewhere
C11_Witness ==
    /\ pc = "returned"
    /\ Len(df.index) = 4
    /\ ColValues(df, "a") = <<Num(1), Num(4), NaN, NaN>>
    /\ ColValues(df, "g") = <<sG1, sG1, sG1, sG2>>
    /\ HasColumn(df_processed, "a")
    /\ df_processed.data["a"][2] = <<5, 2>>
    /\ isnull(df_processed.data["a"][3])

----------------------------------------------------------------------------
(* Properties of min-max normalization (specification SpecMinMax) *)

\* the non-missing values that vals holds at the rows of labels rows
ValuesAt(vals, rows) == {vals[l] : l \in {m \in rows : ~isnull(vals[m])}}

\* the values of vals range from exactly 0 to exactly 1 where source holds two distinct
\* values or more at the rows, and are all 0 where it holds one
ZeroToOne(source, vals, rows) ==
    /\ Cardinality(ValuesAt(source, rows)) >= 2 =>
          /\ Num(0) \in ValuesAt(vals, rows)
          /\ Num(1) \in ValuesAt(vals, rows)
          /\ \A v \in ValuesAt(vals, rows) : IsRat(v) /\ RLe(Num(0), v) /\ RLe(v, Num(1))
    /\ Cardinality(ValuesAt(source, rows)) = 1 =>
          \A l \in rows : ~isnull(source[l]) => vals[l] = Num(0)

\* C12: after a min-max normalization that returned, the normalized values of a column
\* of two distinct values or more have minimum exactly 0 and maximum exactly 1, and a
\* column of a single distinct value is 0 in every row that holds a value; for the
\* grouped normalizer the same holds within each group
C12_MinMaxRangeIsZeroOne ==
    pc = "returned" =>
        IF args.normalizer = "HybridDataProcessor.normalize_by_group"
        THEN \A k \in {sG1, sG2} :
                ZeroToOne(df.data["a"], df_processed.data["a_N"],
                              {l \in Range(df.index) : df.data["g"][l] = k})
        ELSE ZeroToOne(df.data["a"], df_processed.data["a"], Range(df.index))

\* the part of C12 that the two global normalizers satisfy
C12_GlobalMinMaxRangeIsZeroOne ==
    (pc = "returned" /\ args.normalizer # "HybridDataProcessor.normalize_by_group") =>
        ZeroToOne(df.data["a"], df_processed.data["a"], Range(df.index))

\* a grouped call on a = [5, 5, 5, 7] with groups G1, G1, G2, G2: the group of the
\* single value 5 comes back missing, the other group as 0 and 1
C12_GroupOfOneValueIsMissing ==
    /\ pc = "returned"
    /\ args.normalizer = "HybridDataProcessor.normalize_by_group"
    /\ ColValues(df, "a") = <<Num(5), Num(5), Num(5), Num(7)>>
    /\ ColValues(df, "g") = <<sG1, sG1, sG2, sG2>>
    /\ ColValues(df_processed, "a_N") = <<NaN, NaN, Num(0), Num(1)>>

----------------------------------------------------------------------------
(* Properties of the report of a reused instance (specification SpecReuse) *)

\* C13: the report obtained after a run that returned describes that run only: its
\* outlier statistics are empty when the run had detection disabled, and the report
\* (outlier statistics, scalers_count, encoders_count) equals the report of the same
\* run on a fresh instance, the first run of an instance being such a run
C13_ReportDescribesItsRunOnly ==
    \A i \in DOMAIN history :
        history[i].error = "" =>
            /\ ~history[i].config.detect_outliers => history[i].report.outlier_stats = <<>>
            /\ (history[i].df = history[1].df /\ history[i].config = history[1].config) =>
                  history[i].report = history[1].report

\* a run on a frame with two text columns and then a run without detection on a frame
\* without any: the second report counts the two encoders of the first run and carries
\* its outlier statistics
C13_ReportOfEarlierRun ==
    /\ Len(history) = 2
    /\ history[1].df = MixedFrame /\ history[1].config.detect_outliers
    /\ history[1].error = ""
    /\ history[2].df = SkewFrame /\ ~history[2].config.detect_outliers
    /\ history[2].error = ""
    /\ ObjectColumns(history[2].df) = <<>>
    /\ history[2].report.encoders_count = 2
    /\ history[2].report.outlier_stats = history[1].report.outlier_stats
    /\ history[2].report.outlier_stats # <<>>

----------------------------------------------------------------------------
(* Properties of two interleaved instances (specification SpecTwo) *)

\* C14: each of two runs made on two separate instances with their stages interleaved
\* in any order ends with the dataset (or failure), the outlier statistics and the fit
\* artifacts that the same run ends with when it is made alone on a fresh instance
C14_InterleavedRunsAsAlone ==
    \A i \in DOMAIN history :
        i > 2 => [history[i] EXCEPT !.who = 0] = [history[history[i].who] EXCEPT !.who = 0]

\* both interleaved runs have returned, on different frames, the second one first while
\* the first one was between its stages; both have statistics and scalers of their own
C14_Witness ==
    /\ pc = "done"
    /\ Len(history) = 4
    /\ history[1].df # history[2].df
    /\ history[3].who = 2 /\ history[4].who = 1
    /\ history[3].error = "" /\ history[4].error = ""
    /\ history[3].outlier_stats # <<>> /\ history[4].outlier_stats # <<>>
    /\ history[3].outlier_stats # history[4].outlier_stats
    /\ history[3].scalers # {} /\ history[4].encoders # history[3].encoders

\* the first run waits before its normalization while the second run, past its own
\* detection and imputation, executes its treatment of outliers
C14_StagesInterleaved ==
    /\ Len(history) = 2
    /\ args # <<>>
    /\ args.who = 2
    /\ pc = "handle_outliers"
    /\ args.waiting # <<>>
    /\ args.waiting[1].pc = "normalize"
    /\ args.waiting[1].df # df

----------------------------------------------------------------------------
(* Properties of the cleaning pipeline (specification SpecEtl) *)

\* the frame has a missing cell
HasMissing(frame) ==
    \E c \in Range(frame.columns), l \in Range(frame.index) : isnull(frame.data[c][l])

\* the frame has two rows that are equal in every column
HasDuplicatedRows(frame) ==
    \E l, m \in Range(frame.index) :
        l # m /\ RowKey(frame, frame.columns, l) = RowKey(frame, frame.columns, m)

\* C15: for every input in which each column has a non-missing value, clean_data with
\* missing_strategy 'fill' and duplicate removal, outlier handling and inconsistency
\* fixing enabled returns a dataset without a missing value in any column
C15_CleanedHasNoMissingValue ==
    (/\ pc = "cleaned"
     /\ args.missing_strategy = "fill"
     /\ args.remove_duplicates /\ args.handle_outliers /\ args.fix_inconsistencies
     /\ \A c \in Range(df.columns) : \E l \in Range(df.index) : ~isnull(df.data[c][l]))
        => ~HasMissing(df_processed)

\* clean_data with its defaults on a = [1, 1], c = ['A', 'NULL'], a frame without any
\* missing cell, returned c = ['a', NaN]
C15_MissingAfterCleaning ==
    /\ pc = "cleaned"
    /\ args.missing_strategy = "fill"
    /\ args.remove_duplicates /\ args.handle_outliers /\ args.fix_inconsistencies
    /\ ColValues(df, "a") = <<Num(1), Num(1)>>
    /\ ColValues(df, "c") = <<sA, sNULL>>
    /\ ~HasMissing(df)
    /\ ColValues(df_processed, "c") = <<sLowerA, NaN>>

\* C16: for every input, the dataset that clean_data returns with duplicate removal,
\* outlier handling and inconsistency fixing enabled has no two identical rows, and
\* neither has the dataset after normalize_data nor the one after enrich_data
C16_NoDuplicatedRows ==
    (/\ pc \in {"cleaned", "normalized", "enriched"}
     /\ args.remove_duplicates /\ args.handle_outliers /\ args.fix_inconsistencies)
        => ~HasDuplicatedRows(df_processed)

\* the pipeline with the defaults on a = [1, 1], c = ['A', 'a'], two different rows,
\* ended with two identical rows
C16_DuplicatedRowsAtTheEnd ==
    /\ pc = "enriched"
    /\ args.missing_strategy = "fill"
    /\ args.remove_duplicates /\ args.handle_outliers /\ args.fix_inconsistencies
    /\ ColValues(df, "a") = <<Num(1), Num(1)>>
    /\ ColValues(df, "c") = <<sA, sLowerA>>
    /\ ~HasDuplicatedRows(df)
    /\ Len(df_processed.index) = 2
    /\ HasDuplicatedRows(df_processed)

\* clean_data with the defaults on the twenty rows a = 1 .. 20, c = 'a': the
\* winsorization, which follows the removal of duplicates, made the first two rows
\* equal (a = 2) and the last two (a = 19)
C16_DuplicatedRowsByWinsorization ==
    /\ pc = "cleaned"
    /\ df = TwentyRowsFrame
    /\ args.missing_strategy = "fill"
    /\ args.remove_duplicates /\ args.handle_outliers /\ args.fix_inconsistencies
    /\ df_processed.data["a"][0] = Num(2) /\ df_processed.data["a"][1] = Num(2)
    /\ df_processed.data["a"][18] = Num(19) /\ df_processed.data["a"][19] = Num(19)
    /\ Len(df_processed.index) = 20

----------------------------------------------------------------------------
(* Properties of apply_transformations (specification SpecTransform) *)

\* C17: for every dataset, column list and transformation kinds, every input column is
\* in the output of apply_transformations with the same value in every row, the
\* columns of the output beginning with the columns of the input
C17_InputColumnsKept ==
    pc = "returned" =>
        /\ SubSeq(df_processed.columns, 1, Len(df.columns)) = df.columns
        /\ \A c \in Range(df.columns) : df_processed.data[c] = df.data[c]

\* the log transformation of a = [1, 1] in a frame that has a column a_log = [7, 7]:
\* the input column a_log came back as log(a) = [0, 0]
C17_InputColumnOverwritten ==
    /\ pc = "returned"
    /\ args.columns = <<"a">> /\ args.transformations = <<"log">>
    /\ df.columns = <<"a", "a_log">>
    /\ ColValues(df, "a") = <<Num(1), Num(1)>>
    /\ ColValues(df, "a_log") = <<Num(7), Num(7)>>
    /\ df_processed.columns = <<"a", "a_log">>
    /\ ColValues(df_processed, "a_log") = <<Num(0), Num(0)>>

\* the part of C17 that holds: the input columns that do not bear the name of a derived
\* column come back with the same value in every row
C17_OtherInputColumnsKept ==
    pc = "returned" =>
        \A c \in Range(df.columns) :
            (\A i \in DOMAIN args.columns, k \in {"log", "boxcox", "sqrt", "square"} :
                c # args.columns[i] \o "_" \o k)
                => HasColumn(df_processed, c) /\ df_processed.data[c] = df.data[c]

----------------------------------------------------------------------------
(* Properties of the removal of outliers (specification SpecRemove) *)

\* the row labels that a report flags, by any method for any column
Flagged(results) ==
    UNION {Range(results[i].iqr.outliers) \cup Range(results[i].zscore.outliers) :
              i \in DOMAIN results}

\* C18: for every report that the detection produced on the input of the run, the
\* treatment with method remove returns, and returns exactly the rows of the frame it
\* was passed whose label the report does not flag for any column by any method
C18_RemoveReturnsUnflaggedRows ==
    history # <<>> =>
        /\ pc = "treated"
        /\ df_processed = KeepRows(history[1], Range(history[1].index) \ Flagged(outlier_results))

\* the report flags row 3 for column a and for column b: the treatment drops it for a
\* and raises KeyError when it drops it again for b
C18_RowFlaggedForTwoColumns ==
    /\ pc = "raised" /\ error = "KeyError"
    /\ history # <<>> /\ history[1] = df
    /\ ColValues(df, "a") = <<Num(1), Num(1), Num(1), Num(100)>>
    /\ ColValues(df, "b") = <<Num(1), Num(1), Num(1), Num(100)>>
    /\ outlier_results[1].iqr.outliers = <<3>>
    /\ outlier_results[2].iqr.outliers = <<3>>

\* the report flags the rows 6 and 7, the removal of duplicates took row 7 out: the
\* treatment raises KeyError
C18_FlaggedRowRemovedAsDuplicate ==
    /\ pc = "raised" /\ error = "KeyError"
    /\ df = RepeatedOutlierFrame
    /\ Flagged(outlier_results) = {6, 7}
    /\ history # <<>> /\ history[1].index = <<0, 6>>

\* the part of C18 that holds: a treatment that finds every flagged row in the frame,
\* each flagged for one column, returns exactly the rows that are not flagged
C18_RemoveOfRowsFlaggedOnce ==
    (/\ history # <<>>
     /\ Flagged(outlier_results) \subseteq Range(history[1].index)
     /\ \A i, j \in DOMAIN outlier_results :
           i # j => Range(outlier_results[i].iqr.outliers)
                       \cap Range(outlier_results[j].iqr.outliers) = {})
        => /\ pc = "treated"
           /\ df_processed = KeepRows(history[1],
                                      Range(history[1].index) \ Flagged(outlier_results))

----------------------------------------------------------------------------
(* Properties of the normalization of a degenerate column (specification
   SpecDegenerate) *)

\* column a has values, no missing cell, and is degenerate for the method: all its
\* values are equal (standard, minmax), or its median absolute deviation is 0 (robust)
Degenerate(frame, method) ==
    /\ frame.index # <<>>
    /\ IsNullCount(frame, "a") = 0
    /\ IF method = "robust" THEN Mad(ColValues(frame, "a")) = Num(0)
       ELSE AllEqual(ColValues(frame, "a"))

\* C19: the global normalization of a degenerate column, by any of the methods
\* standard, minmax and robust, completes without error and yields 0 in every row
C19_DegenerateColumnBecomesZero ==
    (pc \in {"returned", "raised"} /\ Degenerate(df, args.method)) =>
        /\ pc = "returned"
        /\ \A l \in Range(df.index) : df_processed.data["a"][l] = Num(0)

\* the robust normalization of [1, 1, 1, 5], whose median absolute deviation is 0,
\* raised UnboundLocalError
C19_RobustRaises ==
    /\ pc = "raised" /\ error = "UnboundLocalError"
    /\ args.method = "robust"
    /\ ColValues(df, "a") = <<Num(1), Num(1), Num(1), Num(5)>>
    /\ Mad(ColValues(df, "a")) = Num(0)

\* the part of C19 that holds: methods standard and minmax return 0 in every row of a
\* column whose values are all equal
C19_ConstantColumnBecomesZero ==
    (pc \in {"returned", "raised"} /\ args.method # "robust" /\ Degenerate(df, args.method)) =>
        /\ pc = "returned"
        /\ \A l \in Range(df.index) : df_processed.data["a"][l] = Num(0)

----------------------------------------------------------------------------
(* Properties of the frequency encoding (specification SpecFrequency) *)

\* C20: encode_categorical with method frequency returns a dataset in which every value
\* of the categorical column is replaced by its relative frequency, the number of its
\* occurrences divided by the number of non-missing values of the column
C20_FrequencyReplacesValues ==
    (history # <<>> /\ history[Len(history)].rows = ColValues(df, "c")) =>
        /\ error = ""
        /\ \A l \in Range(df.index) :
              isnull(df.data["c"][l]) \/
              df_processed.data["c"][l] =
                  RDiv(Num(Cardinality({m \in Range(df.index) :
                                           df.data["c"][m] = df.data["c"][l]})),
                       Num(Cardinality({m \in Range(df.index) : ~isnull(df.data["c"][m])})))

\* the frequency encoding of c = ['A', 'AB', 'A'] raised UnboundLocalError and the
\* column is as it was
C20_FrequencyRaises ==
    /\ history # <<>>
    /\ args.method = "frequency"
    /\ ColValues(df, "c") = <<sA, sAB, sA>>
    /\ history[Len(history)].rows = ColValues(df, "c")
    /\ error = "UnboundLocalError"
    /\ ColValues(df_processed, "c") = <<sA, sAB, sA>>

----------------------------------------------------------------------------
(* Properties of the one-hot encoding (specification SpecOneHot) *)

\* column col of the result holds the label codes of column col of frame, row by row
LabelEncodedInPlace(frame, result, col) ==
    /\ HasColumn(result, col)
    /\ \A i \in DOMAIN frame.index :
          result.data[col][frame.index[i]] = LabelEncode(frame, col)[i]

\* column col of frame is replaced in result by one indicator per distinct value, and in
\* each row exactly the indicator of the row's value is set
ReplacedByIndicators(frame, result, col) ==
    /\ ~HasColumn(result, col)
    /\ \A v \in Range(ColValues(frame, col)) :
          /\ Cardinality({k \in DOMAIN result.columns :
                             result.columns[k] = OneHotName(col, v)}) = 1
          /\ \A l \in Range(frame.index) :
                result.data[OneHotName(col, v)][l] =
                    (IF frame.data[col][l] = v THEN Num(1) ELSE Num(0))

\* the columns of the result of the one-hot encoding of frame with at most max categories
OneHotColumns(frame, max) ==
    {col \in Range(frame.columns) :
        frame.dtype[col] # "obj" \/ nunique(frame, col) > max}
    \cup {OneHotName(col, v) : <<col, v>> \in
            UNION {{<<c, w>> : w \in Range(ColValues(frame, c))} :
                     c \in {x \in Range(ObjectColumns(frame)) : nunique(frame, x) <= max}}}

\* C21: encode_categorical with method onehot never raises; a categorical column of
\* more than max_categories distinct values is label-encoded in place; any other one
\* (a count equal to max_categories included) is replaced by exactly one indicator
\* column per distinct value, named {col}_{value}, and in each row exactly the
\* indicator of that row's value is set
C21_OneHotOrLabelFallback ==
    pc \in {"returned", "raised"} =>
        /\ pc = "returned"
        /\ df_processed.index = df.index
        /\ Range(df_processed.columns) = OneHotColumns(df, args.max_categories)
        /\ \A col \in Range(ObjectColumns(df)) :
              IF nunique(df, col) > args.max_categories
              THEN LabelEncodedInPlace(df, df_processed, col)
              ELSE ReplacedByIndicators(df, df_processed, col)

\* c = ['A', 'B'] in the rows labelled 1 and 2, max_categories = 2: the result has a
\* third row, labelled 0, and in row 1, whose value is A, the indicator of B is set
C21_IndicatorOfAnotherRow ==
    /\ pc = "returned"
    /\ args.max_categories = 2
    /\ df.index = <<1, 2>>
    /\ ColValues(df, "c") = <<sA, sB>>
    /\ Len(df_processed.index) = 3
    /\ df_processed.data["c_A"][1] = Num(0)
    /\ df_processed.data["c_B"][1] = Num(1)
    /\ isnull(df_processed.data["c_A"][2])

\* the part of C21 that holds: on a frame of one row or more whose rows are labelled
\* 0..n-1 (the labels that pd.DataFrame and read_csv give)
C21_OneHotOfDefaultIndex ==
    (/\ pc \in {"returned", "raised"}
     /\ df.index # <<>>
     /\ df.index = [i \in DOMAIN df.index |-> i - 1]) =>
        /\ pc = "returned"
        /\ df_processed.index = df.index
        /\ Range(df_processed.columns) = OneHotColumns(df, args.max_categories)
        /\ \A col \in Range(ObjectColumns(df)) :
              IF nunique(df, col) > args.max_categories
              THEN LabelEncodedInPlace(df, df_processed, col)
              ELSE ReplacedByIndicators(df, df_processed, col)

\* c = ['A', 'B', 'A'] has as many distinct values as max_categories = 2 and is
\* replaced by two indicators, while with max_categories = 1 it is label-encoded
C21_CountEqualToMaxCategories ==
    /\ pc = "returned"
    /\ df.index = <<0, 1, 2>>
    /\ ColValues(df, "c") = <<sA, sB, sA>>
    /\ \/ /\ args.max_categories = 2
          /\ ~HasColumn(df_processed, "c")
          /\ ColValues(df_processed, "c_A") = <<Num(1), Num(0), Num(1)>>
       \/ /\ args.max_categories = 1
          /\ ColValues(df_processed, "c") = <<Num(0), Num(1), Num(0)>>

----------------------------------------------------------------------------
(* Properties of normalize_dates (specification SpecDates) *)

\* the date columns that the call processes: the given ones, or the detected ones
ProcessedDateColumns(frame, date_columns) ==
    IF date_columns = <<None>> THEN Range(DetectDateColumns(frame))
    ELSE Range(date_columns) \cap Range(frame.columns)

\* result has the derived columns col_f, f in features, and each row whose entry of col
\* cannot be parsed is missing in col and in every derived column
DerivedColumns(frame, result, col, features) ==
    /\ \A f \in features : HasColumn(result, col \o f)
    /\ \A l \in Range(frame.index) :
          ~ToDatetime(frame.data[col][l]).valid =>
              /\ isnull(result.data[col][l])
              /\ \A f \in features : isnull(result.data[col \o f][l])

\* C22: normalize_dates with extract_features adds, for every processed date column c,
\* the six derived columns c_year, c_month, c_day, c_weekday, c_quarter and
\* c_is_weekend; an entry that cannot be parsed is missing in the date column and in
\* every derived column, and no error is raised
C22_SixDerivedColumns ==
    (pc \in {"returned", "raised"} /\ args.extract_features) =>
        /\ pc = "returned"
        /\ \A col \in ProcessedDateColumns(df, args.date_columns) :
              DerivedColumns(df, df_processed, col,
                  {"_year", "_month", "_day", "_weekday", "_quarter", "_is_weekend"})

\* c = ['2024-01-06', 'A'] is processed: the Saturday has weekday 5, the word is missing
\* in c and in c_weekday, and there is no column c_is_weekend
C22_NoWeekendColumn ==
    /\ pc = "returned"
    /\ args.extract_features /\ args.date_columns = <<"c">>
    /\ ColValues(df, "c") = <<sSaturday, sA>>
    /\ df_processed.data["c"][0] = sSaturday
    /\ df_processed.data["c_weekday"][0] = Num(5)
    /\ isnull(df_processed.data["c"][1])
    /\ isnull(df_processed.data["c_weekday"][1])
    /\ ~HasColumn(df_processed, "c_is_weekend")

\* the part of C22 that holds: the five derived columns c_year, c_month, c_day,
\* c_weekday and c_quarter, with unparsable entries missing
C22_FiveDerivedColumns ==
    (pc \in {"returned", "raised"} /\ args.extract_features) =>
        /\ pc = "returned"
        /\ \A col \in ProcessedDateColumns(df, args.date_columns) :
              DerivedColumns(df, df_processed, col,
                  {"_year", "_month", "_day", "_weekday", "_quarter"})

----------------------------------------------------------------------------
(* Properties of the columns of detect_outliers_comprehensive (specification
   SpecColumns) *)

\* the columns that have an entry in the results
ResultColumns(results) == {results[i].col : i \in DOMAIN results}

\* C23: detect_outliers_comprehensive, given a list of columns that includes a
\* non-numeric column, does not raise and returns results for every numeric column of
\* the list, whatever the requested methods
C23_NonNumericColumnSkipped ==
    (pc \in {"returned", "raised"} /\ \E i \in DOMAIN args.columns : df.dtype[args.columns[i]] = "obj") =>
        /\ pc = "returned"
        /\ \A i \in DOMAIN args.columns :
              df.dtype[args.columns[i]] = "num" => args.columns[i] \in ResultColumns(outlier_results)

\* the detection of the columns a and c by IQR raised TypeError at the text column c,
\* and no results were returned
C23_TextColumnRaises ==
    /\ pc = "raised" /\ error = "TypeError"
    /\ args.columns = <<"a", "c">> /\ args.methods = {"iqr"}
    /\ df.index # <<>>
    /\ df.dtype["c"] = "obj"
    /\ outlier_results = <<>>

\* the part of C23 that holds: a list of numeric columns gets results for each of them,
\* and a list with a text column does when no method is requested
C23_NumericColumnsGetResults ==
    (/\ pc \in {"returned", "raised"}
     /\ \/ args.methods = {}
        \/ \A i \in DOMAIN args.columns : df.dtype[args.columns[i]] = "num") =>
        /\ pc = "returned"
        /\ \A i \in DOMAIN args.columns :
              df.dtype[args.columns[i]] = "num" => args.columns[i] \in ResultColumns(outlier_results)

----------------------------------------------------------------------------
(* Properties of the grouped IQR detection (specification SpecGroupIqr) *)

\* the rows of frame whose value of col lies outside the IQR bounds of the rows of
\* their own group
OutsideOwnGroupBounds(frame, col, group_by) ==
    {l \in Range(frame.index) :
        LET Outside(x, b) == FLt(x, b.lower) \/ FGt(x, b.upper)
        IN  Outside(frame.data[col][l],
                    IqrBounds(GroupValues(frame, group_by, col, frame.data[group_by][l])))}

\* C24: with a group_by column, and two or more groups in the dataset, the IQR detection
\* returns a report in which a row is flagged if and only if its value lies outside the
\* IQR bounds computed over the rows of its own group
C24_FlaggedByOwnGroupBounds ==
    (/\ pc \in {"returned", "raised"}
     /\ Cardinality(GroupKeys(df, args.group_by)) >= 2) =>
        /\ pc = "returned"
        /\ \E i \in DOMAIN outlier_results :
              /\ outlier_results[i].col = "a"
              /\ Range(outlier_results[i].iqr.outliers) =
                     OutsideOwnGroupBounds(df, "a", args.group_by)

\* a = [1, 1, 100] in the groups G1, G1, G2: the grouped detection raised ValueError
C24_GroupedIqrRaises ==
    /\ pc = "raised" /\ error = "ValueError"
    /\ args.group_by = "g"
    /\ ColValues(df, "a") = <<Num(1), Num(1), Num(100)>>
    /\ ColValues(df, "g") = <<sG1, sG1, sG2>>

\* what the grouped detection does: it raises ValueError unless the key of every row is
\* the row's own label, and then every group is one row and no row is flagged
C24_GroupedIqrOfLabelledRows ==
    pc \in {"returned", "raised"} =>
        IF IdenticallyLabeled(df, args.group_by)
        THEN /\ pc = "returned"
             /\ \A i \in DOMAIN outlier_results : outlier_results[i].iqr.outliers = <<>>
        ELSE pc = "raised" /\ error = "ValueError"

\* a = [100, 1] with the keys 0 and 1 of the rows 0 and 1: the detection returned
C24_KeysAreLabels ==
    /\ pc = "returned"
    /\ ColValues(df, "a") = <<Num(100), Num(1)>>
    /\ ColValues(df, "g") = <<Num(0), Num(1)>>
    /\ Len(outlier_results) = 2

----------------------------------------------------------------------------
(* Properties of the imputation by the mode (specification SpecMode) *)

\* the most frequent non-missing values of vals
Modes(vals) ==
    {v \in Range(DropNa(vals)) :
        \A w \in Range(DropNa(vals)) : CountOf(vals, w) <= CountOf(vals, v)}

\* the one of them that appears first in row order
FirstMode(vals) ==
    vals[CHOOSE i \in DOMAIN vals :
            /\ vals[i] \in Modes(vals)
            /\ \A j \in 1..(i - 1) : vals[j] \notin Modes(vals)]

\* the cells of column a of result are those of frame, the missing ones replaced by v
FilledWith(frame, result, v) ==
    \A l \in Range(frame.index) :
        result.data["a"][l] =
            (IF isnull(frame.data["a"][l]) THEN v ELSE frame.data["a"][l])

\* C25: with strategy mode every missing cell of a targeted column (one that has a value
\* and is not dropped for its missing ratio) is filled with the column's most frequent
\* non-missing value, the one that appears first in row order among several that are
\* tied
C25_FilledWithFirstMode ==
    (/\ pc \in {"returned", "raised"}
     /\ HasColumn(df_processed, "a")
     /\ DropNa(ColValues(df, "a")) # <<>>) =>
        /\ pc = "returned"
        /\ FilledWith(df, df_processed, FirstMode(ColValues(df, "a")))

\* a = [5, 1, missing]: 5 and 1 are tied and 5 appears first, and the missing cell is
\* filled with 1
C25_SmallestModeUsed ==
    /\ pc = "returned"
    /\ args.strategy = "mode"
    /\ ColValues(df, "a") = <<Num(5), Num(1), NaN>>
    /\ FirstMode(ColValues(df, "a")) = Num(5)
    /\ ColValues(df_processed, "a") = <<Num(5), Num(1), Num(1)>>

\* the part of C25 that holds: the missing cells are filled with a most frequent value,
\* the smallest one among several that are tied
C25_FilledWithSmallestMode ==
    (/\ pc \in {"returned", "raised"}
     /\ HasColumn(df_processed, "a")
     /\ DropNa(ColValues(df, "a")) # <<>>) =>
        /\ pc = "returned"
        /\ \E v \in Modes(ColValues(df, "a")) :
              /\ \A w \in Modes(ColValues(df, "a")) : RLe(v, w)
              /\ FilledWith(df, df_processed, v)

\* a = [1, 5, 5, missing] has one most frequent value, and the missing cell is filled
\* with it
C25_SingleModeUsed ==
    /\ pc = "returned"
    /\ ColValues(df, "a") = <<Num(1), Num(5), Num(5), NaN>>
    /\ ColValues(df_processed, "a") = <<Num(1), Num(5), Num(5), Num(5)>>

----------------------------------------------------------------------------
(* Properties of the treatment by capping (specification SpecCap) *)

\* column c of result is column c of frame clipped to its own 5th and 95th percentile
ClippedToPercentiles(frame, result, c) ==
    \A l \in Range(frame.index) :
        result.data[c][l] = Clip(frame.data[c][l], Quantile(ColValues(frame, c), 1, 20),
                                 Quantile(ColValues(frame, c), 19, 20))

\* C26: the treatment with method cap clips every numeric column of the dataset to the
\* column's own 5th and 95th percentile, and its result does not depend on the report:
\* for any two reports, an empty one included, it returns the same dataset
C26_CapIgnoresReport ==
    /\ \A i \in DOMAIN history :
          /\ history[i].err = ""
          /\ \A c \in Range(NumericColumns(df)) : ClippedToPercentiles(df, history[i].df, c)
    /\ \A i, j \in DOMAIN history : history[i].df = history[j].df

\* a = [1, 1, 100] treated with the report of both columns and with the empty report:
\* the first result has 100 clipped, the second is the input
C26_EmptyReportClipsNothing ==
    /\ Len(history) = 2
    /\ ColValues(df, "a") = <<Num(1), Num(1), Num(100)>>
    /\ ResultColumns(history[1].report) = {"a", "b"}
    /\ history[2].report = <<>>
    /\ history[1].df.data["a"][2] = Rat(901, 10)
    /\ history[2].df = df
    /\ history[1].df # history[2].df

\* the part of C26 that holds: the columns of the report are clipped to their own 5th
\* and 95th percentile, and the other columns are as they were
C26_CapClipsReportedColumns ==
    \A i \in DOMAIN history :
        /\ history[i].err = ""
        /\ \A c \in Range(NumericColumns(df)) :
              IF c \in ResultColumns(history[i].report)
              THEN ClippedToPercentiles(df, history[i].df, c)
              ELSE ColValues(history[i].df, c) = ColValues(df, c)

----------------------------------------------------------------------------
(* Properties of the Box-Cox transformation (specification SpecTransform) *)

\* the values of column a that are not missing: data of line 205
BoxcoxData(frame) == DropNa(ColValues(frame, "a"))

\* the call transforms column a by boxcox
BoxcoxOfA ==
    /\ pc \in {"returned", "raised"}
    /\ \E i \in DOMAIN args.columns : args.columns[i] = "a"
    /\ \E i \in DOMAIN args.transformations : args.transformations[i] = "boxcox"

\* the values handed to the Box-Cox fit are strictly positive, and so are the values of
\* a_boxcox when the fit failed
BoxcoxValuesPositive ==
    /\ pc = "returned"
    /\ \A i \in DOMAIN BoxcoxData(df) : ~Le0(BoxcoxInput(BoxcoxData(df))[i])
    /\ (~BoxcoxFits(BoxcoxInput(BoxcoxData(df))) \/ Len(BoxcoxData(df)) # Len(df.index)) =>
          \A l \in Range(df.index) :
              \/ isnull(df_processed.data["a_boxcox"][l])
              \/ ~Le0(df_processed.data["a_boxcox"][l])

\* C27: for the boxcox transformation of a numeric column, columns with values less than
\* or equal to -1 included, the values handed to the Box-Cox fit, and the values written
\* to the derived column when the fit fails, are all strictly positive
C27_BoxcoxValuesPositive == BoxcoxOfA => BoxcoxValuesPositive

\* a = [-3, 1]: the values -2 and 2 were handed to the fit, which rejected them, and
\* were written to a_boxcox
C27_NegativeValueWritten ==
    /\ pc = "returned"
    /\ args.columns = <<"a">> /\ args.transformations = <<"boxcox">>
    /\ ColValues(df, "a") = <<Num(-3), Num(1)>>
    /\ BoxcoxInput(BoxcoxData(df)) = <<Num(-2), Num(2)>>
    /\ ~BoxcoxFits(BoxcoxInput(BoxcoxData(df)))
    /\ ColValues(df_processed, "a_boxcox") = <<Num(-2), Num(2)>>

\* the part of C27 that holds: when every value of the column is greater than -1
C27_PositiveAboveMinusOne ==
    (BoxcoxOfA /\ \A i \in DOMAIN BoxcoxData(df) : RLt(Num(-1), BoxcoxData(df)[i])) =>
        BoxcoxValuesPositive

\* a = [0, 4]: the values 1 and 5 were handed to the fit
C27_ShiftedByOne ==
    /\ pc = "returned"
    /\ args.columns = <<"a">> /\ args.transformations = <<"boxcox">>
    /\ ColValues(df, "a") = <<Num(0), Num(4)>>
    /\ BoxcoxInput(BoxcoxData(df)) = <<Num(1), Num(5)>>
    /\ BoxcoxFits(BoxcoxInput(BoxcoxData(df)))

----------------------------------------------------------------------------
(* Properties of the rows of a run of process_data_hybrid (specification Spec) *)

\* a step of a stage that returns a dataset, other than the removal of duplicates and
\* the treatment of the outliers by their removal
RowKeepingStage ==
    /\ pc \in Range(Stages) /\ pc' # "raised"
    /\ pc # "remove_duplicates"
    /\ ~(pc = "handle_outliers" /\ config.outlier_method = "remove")

\* the step leaves the row labels as they are, in their order, and the cells of the
\* columns of the given dtype in their rows
RowsKept(dtype) ==
    /\ df_processed'.index = df_processed.index
    /\ \A c \in Range(df_processed.columns) :
          (df_processed.dtype[c] = dtype /\ HasColumn(df_processed', c)) =>
              \A l \in Range(df_processed.index) :
                  df_processed'.data[c][l] = df_processed.data[c][l]

\* C28: every stage of process_data_hybrid other than the removal of duplicates and the
\* treatment of outliers with method remove returns a dataset with exactly the rows of
\* its input: same count, same row identities, each value still in its own row.  In
\* particular the encoding (onehot included) leaves the numeric cells in their rows and
\* the global normalization the text cells, also after duplicates were removed.
C28_StagesKeepRows ==
    [][RowKeepingStage =>
          /\ df_processed'.index = df_processed.index
          /\ pc = "encode_categorical" => RowsKept("num")
          /\ pc = "normalize" => RowsKept("obj")]_vars

\* the one-hot encoding after the removal of a duplicated row: the six rows of the input
\* became five, and the encoding returned six, with a row of missing cells labelled 1
C28_OneHotAddedRow ==
    /\ pc \in {"normalize_dates", "returned"}
    /\ df = MixedFrame
    /\ config.encoding_method = "onehot"
    /\ \E i \in DOMAIN executed : executed[i] = "remove_duplicates"
    /\ executed[Len(executed)] = "encode_categorical"
    /\ df_processed.index = <<0, 2, 3, 4, 5, 1>>
    /\ isnull(df_processed.data["a"][1])
    /\ isnull(df_processed.data["c_A"][5])

\* the part of C28 that holds: the stages other than the removal of duplicates, the
\* treatment by removal and the one-hot encoding
C28_OtherStagesKeepRows ==
    [][(RowKeepingStage /\ ~(pc = "encode_categorical" /\ config.encoding_method = "onehot")) =>
          /\ df_processed'.index = df_processed.index
          /\ pc = "encode_categorical" => RowsKept("num")
          /\ pc = "normalize" => RowsKept("obj")]_vars

\* the global normalization after the removal of a duplicated row returned the five rows
C28_NormalizedAfterRemoval ==
    /\ pc = "encode_categorical"
    /\ df = MixedFrame
    /\ executed[Len(executed)] = "normalize_global"
    /\ df_processed.index = <<0, 2, 3, 4, 5>>
    /\ ColValues(df_processed, "c") = <<sA, sB, sA, sC, sB>>

----------------------------------------------------------------------------
(* Properties of the order of the encoding and the dates (specification Spec) *)

\* the names of the temporal features that normalize_dates derives from the columns of
\* frame
TemporalFeatureNames(frame) ==
    {c \o f : c \in Range(frame.columns),
              f \in {"_year", "_month", "_day", "_weekday", "_quarter"}}

\* the run encodes by label and normalizes the dates of the columns it detects
LabelThenDetectedDates ==
    /\ config.encode_categorical /\ config.encoding_method = "label"
    /\ config.normalize_dates /\ config.date_columns = <<None>>

\* C29: in a run with encode_categorical enabled (method label) and normalize_dates
\* enabled with date_columns omitted, the encoding has replaced every text column by
\* integer codes before the dates are normalized: the detection of the date columns
\* finds no column, and the output has no derived temporal feature column, even when
\* the input has a text column of parsable dates
C29_NoTemporalFeatureAfterLabelEncoding ==
    LabelThenDetectedDates =>
        /\ pc = "normalize_dates" =>
              /\ ObjectColumns(df_processed) = <<>>
              /\ DetectDateColumns(df_processed) = <<>>
        /\ pc = "returned" =>
              /\ ObjectColumns(df_processed) = <<>>
              /\ Range(df_processed.columns) \cap
                    (TemporalFeatureNames(df) \cup TemporalFeatureNames(df_processed)) = {}

\* a run of the default config on a frame with the text column d of parsable dates
\* returned: d holds integer codes and there is no column d_year
C29_Witness ==
    /\ pc = "returned"
    /\ LabelThenDetectedDates
    /\ df = TwoColumnFrame
    /\ DetectDateColumns(df) = <<"d">>
    /\ executed[Len(executed)] = "normalize_dates"
    /\ \E i \in DOMAIN executed : executed[i] = "encode_categorical"
    /\ df_processed.dtype["d"] = "num"
    /\ \A l \in Range(df_processed.index) : IsRat(df_processed.data["d"][l])
    /\ ~HasColumn(df_processed, "d_year")

----------------------------------------------------------------------------
(* Properties of the treatment without detection (specification SpecStale) *)

\* C30: in a run with detect_outliers disabled and handle_outliers enabled the treatment
\* stage changes no cell and removes no row, for every outlier_method, also when the
\* instance still holds the outlier statistics of an earlier run: they are never applied
\* to the dataset of a later run
C30_TreatmentWithoutDetectionChangesNothing ==
    [][(pc = "handle_outliers" /\ config.handle_outliers /\ ~config.detect_outliers) =>
          /\ pc' = NextPc("handle_outliers")
          /\ df_processed' = df_processed
          /\ outlier_results' = <<>>]_vars

\* the second run of an instance, without detection and with method remove, is past its
\* treatment stage: self.outlier_stats still flags row 3 of column a, from the first
\* run, and row 3 is in the dataset with its value
C30_Witness ==
    /\ pc = "apply_transformations"
    /\ Len(history) = 1 /\ history[1].config.detect_outliers
    /\ ~config.detect_outliers /\ config.handle_outliers
    /\ config.outlier_method = "remove"
    /\ executed[Len(executed)] = "handle_outliers"
    /\ df = ExampleFrame
    /\ \E i \in DOMAIN outlier_stats :
          /\ outlier_stats[i].col = "a"
          /\ outlier_stats[i].iqr.outliers = <<3>>
    /\ df_processed.data["a"][3] = Num(1000)

=============================================================================
